---- MODULE Spec2Model ----
(***************************************************************************)
(* Reward decision service: the decision engine (src/src/reward_logic.py), *)
(* the persona service (src/src/persona.py), the in-memory cache           *)
(* (src/src/cache.py) and the policy accessors (src/src/config.py).        *)
(*                                                                         *)
(* Time is counted in hours: every TTL and the cooldown period of the      *)
(* source are whole hours (3600 s, 86400 s), and the clock only takes      *)
(* whole-hour values, so the comparisons of the source are kept exactly.   *)
(* Floats are modelled by exact rationals: xp_per_rupee and the persona    *)
(* multipliers in tenths, reward-type weights in thousandths; on the       *)
(* amounts and rates used here the float results of the source equal the   *)
(* exact ones.  The product weight * 100 is computed as IEEE-754 doubles   *)
(* compute it (float_percent).                                             *)
(***************************************************************************)
EXTENDS Integers, Sequences, FiniteSets, TLC

VARIABLES
    now,        \* wall clock, in hours (time.time(), datetime.now())
    policy,     \* PolicyConfig.config of this process
    settings,   \* Settings of this process
    backend,    \* Cache._backend: "memory", or "redis" with its server down
    hashSeed,   \* hash(user_id) % 100 of this process, per user id
    data,       \* InMemoryCache._data: key -> [value, expiry]
    personas,   \* PersonaService._personas_data
    threads,    \* the calls in flight, one per request-handling thread
    nextId,     \* the next uuid4 (every uuid4 is new)
    log,        \* the decide calls that returned, in order of return
    gen,        \* per idempotency key: how many times an entry was created
    epoch,      \* how many times the process was restarted
    load,       \* what the clients of this run send, and how much of it
    used        \* how much of it they have sent so far

vars == <<now, policy, settings, backend, hashSeed, data, personas, threads, nextId,
          log, gen, epoch, load, used>>

----------------------------------------------------------------------------
(* Bounds of the model, per kind of run (see Init) *)

SweepCalls == 2
SweepSpends == 1
RaceThreads == 2
RaceCalls == 4
ExpiryCalls == 2
ExpiryTicks == 1
KeysCalls == 2
TtlCalls == 2
TtlTicks == 1
RestartCalls == 2
MaxRestarts == 1
OutageCalls == 3
OutageSpends == 1
InvalidCalls == 3
InvalidSpends == 1
SpendCalls == 1
SpendUpdates == 3
LedgerUpdates == 3
LedgerTicks == 1
StampCalls == 2
StampTicks == 1
WeightCalls == 1
PersonaCalls == 2
PersonaUpdates == 1
PersonaTicks == 1
RolloverCalls == 1
RolloverSpends == 1
RolloverTicks == 1
CooldownRaceCalls == 2
WindowCalls == 2
WindowTicks == 1
InferCalls == 2
InferDecides == 1
CacheCalls == 3
CacheTicks == 3

TxnIds == {"t", "t:u"}
UserIds == {"u", "u:u"}
MerchantIds == {"m", "n"}
Amounts == {100, 1000, 10000}
SpendAmounts == {900}
PayoutAmounts == {30, 150}
InvalidAmounts == {0, -100}
TickSteps == {1, 24, 25}
SeedValues == {69, 70, 90}
CooldownHours == {1, 24, 48}
InferInputs == {-1, 0, 1, 9, 10, 12}

(* Optional[...] of Python: None is <<>>, a value x is <<x>> *)
None == <<>>
Some(x) == <<x>>

Timestamps == {None, Some(0), Some(2)}

----------------------------------------------------------------------------
(* src/src/models.py *)

RewardType == {"XP", "CHECKOUT", "GOLD"}
PersonaType == {"NEW", "RETURNING", "POWER"}

(* what a client may send as a request *)
RequestBodies ==
    [txn_id : TxnIds, user_id : UserIds, merchant_id : MerchantIds,
     amount : Amounts \cup PayoutAmounts \cup InvalidAmounts,
     ts : Timestamps]

amount_valid_from_zero(amount) == amount >= 0

(* amount: float = Field(..., gt=0) *)
amount_valid(amount) == amount > 0

(* the requests that pass validation *)
RewardDecisionRequest == {r \in RequestBodies : amount_valid(r.amount)}

UserPersona(user_id, persona, lifetime_purchases, last_reward_ts) ==
    [user_id |-> user_id, persona |-> persona,
     lifetime_purchases |-> lifetime_purchases,
     last_reward_ts |-> last_reward_ts]

----------------------------------------------------------------------------
(* src/src/config.py *)

HoursPerDay == 24
idempotency_ttl == 24
persona_cache_ttl == 1
last_reward_cache_ttl == 24
cac_ttl == 24

SettingsValues == [enable_idempotency : BOOLEAN]

default_config ==
    [version |-> "v1.0.0",
     reward_types |-> << <<"XP", 700>>, <<"CHECKOUT", 200>>, <<"GOLD", 100>> >>,
     xp_per_rupee |-> 1,
     max_xp_per_txn |-> 500,
     persona_multipliers |-> [NEW |-> 10, RETURNING |-> 15, POWER |-> 20],
     daily_cap_per_persona |-> [NEW |-> 0, RETURNING |-> 1000, POWER |-> 5000],
     fallback_to_xp |-> TRUE,
     prefer_xp_mode |-> FALSE,
     cooldown_enabled |-> FALSE,
     cooldown_hours |-> 24]

(* the policy files a deployment may load: the default one and the ones
   that switch its feature flags *)
Policies ==
    {[default_config EXCEPT !.fallback_to_xp = f, !.prefer_xp_mode = x,
                            !.cooldown_enabled = c] :
        f \in BOOLEAN, x \in BOOLEAN, c \in BOOLEAN}

(* the reward_types of the policy files of InitWeights: the default ones,
   the same in another order, weights that sum to 0.7, and weights whose
   product with 100 is not a whole double *)
WeightMaps ==
    {<< <<"XP", 700>>, <<"CHECKOUT", 200>>, <<"GOLD", 100>> >>,
     << <<"CHECKOUT", 200>>, <<"GOLD", 100>>, <<"XP", 700>> >>,
     << <<"XP", 500>>, <<"CHECKOUT", 200>> >>,
     << <<"XP", 290>>, <<"CHECKOUT", 710>> >>}

WeightSeeds == {0, 19, 20, 28, 29, 49, 50, 69, 70, 89, 90, 99}

get_reward_type_weights(pol) == pol.reward_types
get_xp_per_rupee(pol) == pol.xp_per_rupee
get_max_xp_per_txn(pol) == pol.max_xp_per_txn
get_persona_multiplier(pol, persona) ==
    IF persona \in DOMAIN pol.persona_multipliers
    THEN pol.persona_multipliers[persona] ELSE 10

get_daily_cac_cap_flat(pol, persona) ==
    IF persona \in DOMAIN pol.daily_cap_per_persona
    THEN pol.daily_cap_per_persona["RETURNING"] ELSE 0

get_daily_cac_cap(pol, persona) ==
    IF persona \in DOMAIN pol.daily_cap_per_persona
    THEN pol.daily_cap_per_persona[persona] ELSE 0

get_cac_fallback_to_xp(pol) == pol.fallback_to_xp
prefer_xp_mode(pol) == pol.prefer_xp_mode
cooldown_enabled_always(pol) == TRUE
cooldown_enabled(pol) == pol.cooldown_enabled
get_cooldown_hours(pol) == pol.cooldown_hours

----------------------------------------------------------------------------
(* src/src/cache.py, InMemoryCache *)

Expired_at_expiry(c, key, t) ==
    key \in DOMAIN c /\ c[key].expiry # None /\ t >= c[key].expiry[1]

(* expiry is not None and time.time() > expiry *)
Expired(c, key, t) ==
    key \in DOMAIN c /\ c[key].expiry # None /\ t > c[key].expiry[1]

Remove(c, key) == [k \in DOMAIN c \ {key} |-> c[k]]

cache_get_no_expiry(c, key, t) ==
    IF key \notin DOMAIN c THEN None ELSE Some(c[key].value)

(* get: the value, None for a key that is absent or past its expiry *)
cache_get(c, key, t) ==
    IF key \notin DOMAIN c THEN None
    ELSE IF Expired(c, key, t) THEN None
    ELSE Some(c[key].value)

(* get deletes the entry it finds expired *)
cache_after_get(c, key, t) ==
    IF Expired(c, key, t) THEN Remove(c, key) ELSE c

cache_set(c, key, value, ttl, t) ==
    LET expiry == IF ttl # None THEN Some(t + ttl[1]) ELSE None
    IN  [k \in DOMAIN c \cup {key} |->
            IF k = key THEN [value |-> value, expiry |-> expiry] ELSE c[k]]

(* the store after delete, and what delete returns *)
cache_delete(c, key) == IF key \in DOMAIN c THEN Remove(c, key) ELSE c

cache_delete_result(c, key) == key \in DOMAIN c

(* exists deletes the entry it finds expired, like get *)
cache_exists(c, key, t) == key \in DOMAIN c /\ ~Expired(c, key, t)

(* increment: get, then a write that keeps the expiry of the entry that is
   still there after the get *)
cache_increment_result(c, key, amount, t) ==
    LET current == cache_get(c, key, t)
    IN  (IF current = None THEN 0 ELSE current[1]) + amount

cache_increment_keeps_expiry(c, key, amount, t) ==
    LET after == cache_after_get(c, key, t)
        expiry == IF key \in DOMAIN c THEN c[key].expiry ELSE None
    IN  [k \in DOMAIN after \cup {key} |->
            IF k = key
            THEN [value |-> cache_increment_result(c, key, amount, t),
                  expiry |-> expiry]
            ELSE after[k]]

cache_increment(c, key, amount, t) ==
    LET after == cache_after_get(c, key, t)
        expiry == IF key \in DOMAIN after THEN after[key].expiry ELSE None
    IN  [k \in DOMAIN after \cup {key} |->
            IF k = key
            THEN [value |-> cache_increment_result(c, key, amount, t),
                  expiry |-> expiry]
            ELSE after[k]]

----------------------------------------------------------------------------
(* src/src/cache.py, RedisCache and Cache.  The Redis server is not part of *)
(* the repository; the runs with the "redis" backend are those in which it  *)
(* cannot be reached (available is False, or every command raises), and     *)
(* data is then what the server holds, out of reach.                        *)

(* RedisCache.get without a server: None *)
redis_get(key) == None

Cache_get_unchecked(c, key, t) == cache_get(c, key, t)

(* Cache.get *)
Cache_get(c, key, t) ==
    IF backend = "redis" THEN redis_get(key) ELSE cache_get(c, key, t)

(* the store after Cache.get *)
Cache_after_get(c, key, t) ==
    IF backend = "redis" THEN c ELSE cache_after_get(c, key, t)

(* the store after Cache.set; RedisCache.set without a server stores
   nothing and returns False, which no caller looks at *)
Cache_set(c, key, value, ttl, t) ==
    IF backend = "redis" THEN c ELSE cache_set(c, key, value, ttl, t)

----------------------------------------------------------------------------
(* src/src/persona.py *)

(* the contents of the personas file: "u" is a known user, "u:u" is not *)
PersonaFiles ==
    {[x \in {"u"} |-> [persona |-> "RETURNING", lifetime_purchases |-> 5]],
     [x \in {"u"} |-> [persona |-> "POWER", lifetime_purchases |-> 12,
                       last_reward_ts |-> 1]]}

(* personas files whose records have a persona other than the one their
   lifetime_purchases would suggest, or none *)
InferFiles ==
    {[x \in {"u"} |-> [persona |-> "NEW", lifetime_purchases |-> 12]],
     [x \in {"u"} |-> [persona |-> "POWER", lifetime_purchases |-> 0]],
     [x \in {"u"} |-> [lifetime_purchases |-> 12]]}

dict_get(d, field, default) == IF field \in DOMAIN d THEN d[field] ELSE default

infer_persona_new_below_one(lifetime_purchases) ==
    IF lifetime_purchases <= 0 THEN "NEW"
    ELSE IF lifetime_purchases >= 10 THEN "POWER"
    ELSE "RETURNING"

infer_persona(lifetime_purchases) ==
    IF lifetime_purchases = 0 THEN "NEW"
    ELSE IF lifetime_purchases >= 10 THEN "POWER"
    ELSE "RETURNING"

(* get_persona after a cache miss: the dataset record, or the NEW default *)
resolve_persona(pdata, user_id) ==
    IF user_id \in DOMAIN pdata
    THEN UserPersona(user_id,
                     dict_get(pdata[user_id], "persona", "NEW"),
                     dict_get(pdata[user_id], "lifetime_purchases", 0),
                     IF "last_reward_ts" \in DOMAIN pdata[user_id]
                     THEN Some(pdata[user_id].last_reward_ts) ELSE None)
    ELSE UserPersona(user_id, "NEW", 0, None)

persona_key(user_id) == "persona:" \o user_id

(* persona.model_dump() as update_persona stores it in the dataset; a key
   whose value is None reads through .get() like a key that is absent, and
   is left out *)
model_dump(persona) ==
    IF persona.last_reward_ts = None
    THEN [user_id |-> persona.user_id, persona |-> persona.persona,
          lifetime_purchases |-> persona.lifetime_purchases]
    ELSE [user_id |-> persona.user_id, persona |-> persona.persona,
          lifetime_purchases |-> persona.lifetime_purchases,
          last_reward_ts |-> persona.last_reward_ts[1]]

(* the records that maintenance callers pass to update_persona *)
PersonaRecords ==
    {UserPersona("u", "POWER", 12, Some(1)), UserPersona("u", "NEW", 0, None)}

----------------------------------------------------------------------------
(* src/src/reward_logic.py: the pure parts *)

(* int(x) of Python for the rational n/d, d > 0: truncation toward zero *)
Trunc(n, d) == IF n >= 0 THEN n \div d ELSE -((-n) \div d)

Min(a, b) == IF a < b THEN a ELSE b

build_idempotency_key_no_merchant(request) ==
    "idem:" \o request.txn_id \o ":" \o request.user_id

build_idempotency_key_with_amount(request) ==
    "idem:" \o request.txn_id \o ":" \o request.user_id \o ":"
            \o request.merchant_id \o ":" \o ToString(request.amount)

build_idempotency_key(request) ==
    "idem:" \o request.txn_id \o ":" \o request.user_id \o ":"
            \o request.merchant_id

idem_hit_never(cached_response) == FALSE

(* if cached_response: a stored decision is a non-empty dict *)
idem_hit(cached_response) == cached_response # None

calculate_xp_unclamped(pol, amount, persona) ==
    Trunc(amount * get_xp_per_rupee(pol)
                 * get_persona_multiplier(pol, persona), 100)

(* amount * xp_per_rupee * multiplier, the two rates in tenths *)
calculate_xp(pol, amount, persona) ==
    LET calculated_xp ==
            Trunc(amount * get_xp_per_rupee(pol)
                         * get_persona_multiplier(pol, persona), 100)
    IN  Min(calculated_xp, get_max_xp_per_txn(pol))

RECURSIVE Pow2(_)
Pow2(e) == IF e = 0 THEN 1 ELSE 2 * Pow2(e - 1)

(* 2^e modulo m *)
RECURSIVE Pow2Mod(_, _)
Pow2Mod(e, m) == IF e = 0 THEN 1 % m ELSE (2 * Pow2Mod(e - 1, m)) % m

(* int(w * 100) in IEEE-754 double arithmetic for the literal w = k/100,
   0 <= k <= 100.  The double nearest to k/100 is m * 2^(-s) with
   s = 52 + j, where 2^(-j) <= k/100 < 2^(1-j); r = k * 2^s mod 100 is what
   the conversion of the literal drops (r < 50) or adds (100 - r).  The
   product with 100 is then k - r * 2^(-s) or k + (100 - r) * 2^(-s), and
   it rounds to a double below k exactly when r < 50 and r * 2^(-s) is more
   than half the spacing of the doubles below k, 2^(F-52) for
   2^F < k < 2^(F+1) and 2^(F-53) for k = 2^F; int() then gives k - 1. *)
float_percent(k) ==
    IF k = 0 THEN 0
    ELSE LET j == CHOOSE x \in 0..7 :
                     k * Pow2(x) >= 100 /\ (x = 0 \/ k * Pow2(x - 1) < 100)
             F == CHOOSE x \in 0..6 : Pow2(x) <= k /\ k < Pow2(x + 1)
             r == (k * Pow2Mod(52 + j, 100)) % 100
             half == Pow2(F + j - 1 - (IF k = Pow2(F) THEN 1 ELSE 0))
         IN  IF r < 50 /\ r > half THEN k - 1 ELSE k

(* float_percent, computed once *)
FloatPercents == [k \in 0..100 |-> float_percent(k)]

(* int(weight * 100), the weight in thousandths: a product that is not a
   whole number is at least 1/10 away from one and is truncated; a whole
   one is computed as the doubles compute it *)
weight_percent(weight) ==
    IF weight % 10 # 0 THEN Trunc(weight * 100, 1000)
    ELSE FloatPercents[weight \div 10]

payout_xp_paid(reward_type, amount) ==
    IF reward_type = "GOLD" THEN <<"GOLD", Trunc(amount * 2, 100)>>
    ELSE <<IF reward_type = "CHECKOUT" THEN "CHECKOUT" ELSE "XP",
           Trunc(amount * 5, 100)>>

(* the payout of the reward type that wins the selection *)
payout(reward_type, amount) ==
    IF reward_type = "CHECKOUT" THEN <<"CHECKOUT", Trunc(amount * 5, 100)>>
    ELSE IF reward_type = "GOLD" THEN <<"GOLD", Trunc(amount * 2, 100)>>
    ELSE <<"XP", 0>>

RECURSIVE select_from_inclusive(_, _, _, _, _)
select_from_inclusive(weights, i, cumulative, seed, amount) ==
    IF i > Len(weights) THEN <<"XP", 0>>
    ELSE LET c == cumulative + weight_percent(weights[i][2])
         IN  IF seed <= c THEN payout(weights[i][1], amount)
             ELSE select_from_inclusive(weights, i + 1, c, seed, amount)

(* the loop over weights.items(), from entry i with the running total *)
RECURSIVE select_from(_, _, _, _, _)
select_from(weights, i, cumulative, seed, amount) ==
    IF i > Len(weights) THEN <<"XP", 0>>
    ELSE LET c == cumulative + weight_percent(weights[i][2])
         IN  IF seed < c THEN payout(weights[i][1], amount)
             ELSE select_from(weights, i + 1, c, seed, amount)

select_reward_by_amount(pol, seed, amount) ==
    select_from(get_reward_type_weights(pol), 1, 0,
                (seed + amount \div 100) % 100, amount)

select_reward(pol, seed, amount) ==
    select_from(get_reward_type_weights(pol), 1, 0, seed, amount)

today(t) == ToString(t \div HoursPerDay)

cac_key_no_user(user_id, t) == "cac:" \o today(t)

cac_key(user_id, t) == "cac:" \o user_id \o ":" \o today(t)

last_reward_key(user_id) == "last_reward:" \o user_id

get_daily_cac_spend_unread(c, user_id, t) == 0

get_daily_cac_spend_with_yesterday(c, user_id, t) ==
    LET cached == Cache_get(c, cac_key(user_id, t), t)
        earlier == IF t >= HoursPerDay
                   THEN Cache_get(c, cac_key(user_id, t - HoursPerDay), t)
                   ELSE None
    IN  (IF cached # None THEN cached[1] ELSE 0)
           + (IF earlier # None THEN earlier[1] ELSE 0)

(* cached or 0.0 *)
get_daily_cac_spend(c, user_id, t) ==
    LET cached == Cache_get(c, cac_key(user_id, t), t)
    IN  IF cached # None /\ cached[1] # 0 THEN cached[1] ELSE 0

cap_exceeded_or_reached(daily_spend, amount, daily_cap) ==
    daily_spend + amount >= daily_cap

cap_exceeded(daily_spend, amount, daily_cap) == daily_spend + amount > daily_cap

is_in_cooldown_inclusive(pol, c, user_id, t) ==
    LET last_reward_ts == Cache_get(c, last_reward_key(user_id), t)
    IN  IF last_reward_ts = None THEN FALSE
        ELSE (t - last_reward_ts[1]) <= get_cooldown_hours(pol)

is_in_cooldown(pol, c, user_id, t) ==
    LET last_reward_ts == Cache_get(c, last_reward_key(user_id), t)
    IN  IF last_reward_ts = None THEN FALSE
        ELSE (t - last_reward_ts[1]) < get_cooldown_hours(pol)

(* ts or int(datetime.now().timestamp()) *)
reward_timestamp(ts, t) == IF ts # None /\ ts[1] # 0 THEN ts[1] ELSE t

get_reason_codes_flags_first(pol, persona, reward_type) ==
    (IF persona = "NEW" THEN <<"NEW_USER">>
     ELSE IF persona = "RETURNING" THEN <<"RETURNING_USER">>
     ELSE IF persona = "POWER" THEN <<"POWER_USER">> ELSE <<>>)
    \o (IF prefer_xp_mode(pol) THEN <<"PREFER_XP_MODE">> ELSE <<>>)
    \o (IF reward_type = "XP" THEN <<"XP_MODE_ENABLED">>
        ELSE IF reward_type = "CHECKOUT" THEN <<"CHECKOUT_REWARD">>
        ELSE IF reward_type = "GOLD" THEN <<"GOLD_REWARD">> ELSE <<>>)
    \o (IF cooldown_enabled(pol) THEN <<"COOLDOWN_POLICY_ENABLED">> ELSE <<>>)

get_reason_codes(pol, persona, reward_type) ==
    (IF persona = "NEW" THEN <<"NEW_USER">>
     ELSE IF persona = "RETURNING" THEN <<"RETURNING_USER">>
     ELSE IF persona = "POWER" THEN <<"POWER_USER">> ELSE <<>>)
    \o (IF reward_type = "XP" THEN <<"XP_MODE_ENABLED">>
        ELSE IF reward_type = "CHECKOUT" THEN <<"CHECKOUT_REWARD">>
        ELSE IF reward_type = "GOLD" THEN <<"GOLD_REWARD">> ELSE <<>>)
    \o (IF prefer_xp_mode(pol) THEN <<"PREFER_XP_MODE">> ELSE <<>>)
    \o (IF cooldown_enabled(pol) THEN <<"COOLDOWN_POLICY_ENABLED">> ELSE <<>>)

RewardDecisionResponse(pol, decision_id, request, persona, xp, reward) ==
    [decision_id |-> decision_id,
     policy_version |-> pol.version,
     reward_type |-> reward[1],
     reward_value |-> reward[2],
     xp |-> xp,
     reason_codes |-> get_reason_codes(pol, persona, reward[1]),
     meta |-> [persona |-> persona,
               multiplier |-> get_persona_multiplier(pol, persona),
               txn_id |-> request.txn_id,
               user_id |-> request.user_id,
               merchant_id |-> request.merchant_id]]

----------------------------------------------------------------------------
(* The state of one thread.  The fields persona .. decision of a decide    *)
(* call are its locals (found is "cache" from a get_persona that hit the  *)
(* cache until _determine_reward begins);                                  *)
(* hit .. epoch record what the call observed, with                        *)
(* startWrites the number of idempotency writes made to its key before it  *)
(* began, writeSeq the number of its own among them and doneTime when a  *)
(* fresh decision returned.  Of an                                         *)
(* _update_daily_cac_spend call, cache_key and current are its locals;     *)
(* beginTime and readTime are when it began and read, and overlapped       *)
(* records that another update wrote its key after it read.                *)

Idle == [pc |-> "idle", op |-> "none"]

Threads == DOMAIN threads

IdemKeys == {build_idempotency_key(r) : r \in RewardDecisionRequest}

(* the entry a get of the key would return *)
Live(c, key, t) ==
    backend = "memory" /\ key \in DOMAIN c /\ ~Expired(c, key, t)

Deciding(p) == threads[p].op = "decide"

KeyOf(p) == build_idempotency_key(threads[p].request)

(* a call that missed the idempotency lookup and has not yet written *)
Missed(p) ==
    /\ Deciding(p)
    /\ threads[p].pc \in {"get_persona", "set_persona", "determine",
                          "cooldown", "idem_set"}

NewCall(request) ==
    LET key == build_idempotency_key(request)
    IN  [pc |-> IF settings.enable_idempotency THEN "idem_check"
                ELSE "get_persona",
         op |-> "decide",
         request |-> request,
         persona |-> None,
         found |-> "none",
         daily_spend |-> None,
         path |-> "none",
         seed |-> None,
         decision |-> None,
         hit |-> FALSE,
         startIdx |-> Len(log),
         startGen |-> gen[key],
         startLive |-> Live(data, key, now),
         startQuiet |-> /\ Live(data, key, now)
                        /\ \A q \in Threads : ~(Missed(q) /\ KeyOf(q) = key),
         startExpiry |-> IF Live(data, key, now) THEN data[key].expiry
                         ELSE None,
         checkTime |-> None,
         hitGen |-> None,
         entryExpiry |-> None,
         startWrites |-> used.writes[key],
         writeSeq |-> None,
         doneTime |-> None,
         epoch |-> epoch]

Return(p, t) ==
    /\ log' = Append(log, t)
    /\ threads' = [threads EXCEPT ![p] = Idle]

----------------------------------------------------------------------------
(* decide, one action per cache round trip *)

(* a request arrives and a thread takes it; a body that fails validation
   never becomes a RewardDecisionRequest and the client gets the error *)
Start(p) ==
    /\ threads[p].pc = "idle"
    /\ used.calls < load.calls
    /\ \E request \in load.requests :
          IF request \in RewardDecisionRequest
          THEN /\ threads' = [threads EXCEPT ![p] = NewCall(request)]
               /\ used' = [used EXCEPT !.calls = @ + 1]
          ELSE /\ threads' = threads
               /\ used' = [used EXCEPT !.calls = @ + 1, !.invalid = @ + 1]
    /\ UNCHANGED <<now, policy, settings, backend, hashSeed, data, personas, nextId,
                   log, gen, epoch, load>>

IdemCheck_refresh(p) ==
    /\ threads[p].pc = "idem_check"
    /\ LET key == KeyOf(p)
           cached_response == Cache_get(data, key, now)
           t == [threads[p] EXCEPT !.checkTime = Some(now)]
       IN  /\ data' = IF idem_hit(cached_response)
                      THEN Cache_set(data, key, cached_response[1],
                                     Some(idempotency_ttl), now)
                      ELSE Cache_after_get(data, key, now)
           /\ IF idem_hit(cached_response)
              THEN Return(p, [t EXCEPT !.pc = "returned",
                                       !.hit = TRUE,
                                       !.decision = cached_response,
                                       !.hitGen = Some(gen[key]),
                                       !.entryExpiry = data[key].expiry])
              ELSE /\ threads' = [threads EXCEPT ![p] =
                                     [t EXCEPT !.pc = "get_persona"]]
                   /\ UNCHANGED log
    /\ UNCHANGED <<now, policy, settings, backend, hashSeed, personas, nextId, gen,
                   epoch, load, used>>

(* step 1: the idempotency lookup; a hit returns the stored decision *)
IdemCheck(p) ==
    /\ threads[p].pc = "idem_check"
    /\ LET key == KeyOf(p)
           cached_response == Cache_get(data, key, now)
           t == [threads[p] EXCEPT !.checkTime = Some(now)]
       IN  /\ data' = Cache_after_get(data, key, now)
           /\ IF idem_hit(cached_response)
              THEN Return(p, [t EXCEPT !.pc = "returned",
                                       !.hit = TRUE,
                                       !.decision = cached_response,
                                       !.hitGen = Some(gen[key]),
                                       !.entryExpiry = data[key].expiry])
              ELSE /\ threads' = [threads EXCEPT ![p] =
                                     [t EXCEPT !.pc = "get_persona"]]
                   /\ UNCHANGED log
    /\ UNCHANGED <<now, policy, settings, backend, hashSeed, personas, nextId, gen,
                   epoch, load, used>>

GetPersona_dataset_first(p) ==
    /\ threads[p].pc = "get_persona"
    /\ LET user_id == threads[p].request.user_id
           cached == Cache_get(data, persona_key(user_id), now)
       IN  /\ data' = Cache_after_get(data, persona_key(user_id), now)
           /\ threads' = [threads EXCEPT ![p] =
                IF cached # None
                THEN [@ EXCEPT !.pc = "determine",
                               !.persona = Some(resolve_persona(personas,
                                                                user_id)),
                               !.found = "cache"]
                ELSE [@ EXCEPT !.pc = "set_persona",
                               !.persona = Some(resolve_persona(personas,
                                                                user_id))]]
    /\ UNCHANGED <<now, policy, settings, backend, hashSeed, personas, nextId, log,
                   gen, epoch, load, used>>

(* step 2, get_persona: the cache lookup and, on a miss, the dataset *)
GetPersona(p) ==
    /\ threads[p].pc = "get_persona"
    /\ LET user_id == threads[p].request.user_id
           cached == Cache_get(data, persona_key(user_id), now)
       IN  /\ data' = Cache_after_get(data, persona_key(user_id), now)
           /\ threads' = [threads EXCEPT ![p] =
                IF cached # None
                THEN [@ EXCEPT !.pc = "determine", !.persona = cached,
                               !.found = "cache"]
                ELSE [@ EXCEPT !.pc = "set_persona",
                               !.persona = Some(resolve_persona(personas,
                                                                user_id))]]
    /\ UNCHANGED <<now, policy, settings, backend, hashSeed, personas, nextId, log,
                   gen, epoch, load, used>>

(* step 2, get_persona: the write back to the cache *)
SetPersona(p) ==
    /\ threads[p].pc = "set_persona"
    /\ data' = Cache_set(data, persona_key(threads[p].request.user_id),
                         threads[p].persona[1], Some(persona_cache_ttl), now)
    /\ threads' = [threads EXCEPT ![p].pc = "determine"]
    /\ UNCHANGED <<now, policy, settings, backend, hashSeed, personas, nextId, log,
                   gen, epoch, load, used>>

Assemble_xp_capped(p, reward, path, daily_spend, seed) ==
    LET t == threads[p]
        persona == t.persona[1].persona
        xp == IF path = "cap" THEN 0
              ELSE calculate_xp(policy, t.request.amount, persona)
        decision == RewardDecisionResponse(policy, nextId, t.request,
                                           persona, xp, reward)
    IN  /\ threads' = [threads EXCEPT ![p] =
              [t EXCEPT !.pc = IF settings.enable_idempotency
                               THEN "idem_set" ELSE "last_reward",
                        !.path = path,
                        !.daily_spend = daily_spend,
                        !.seed = seed,
                        !.found = "none",
                        !.decision = Some(decision)]]
        /\ nextId' = nextId + 1

(* steps 3 and 5: the xp, the uuid4 and the response, once the reward is
   determined *)
Assemble(p, reward, path, daily_spend, seed) ==
    LET t == threads[p]
        persona == t.persona[1].persona
        xp == calculate_xp(policy, t.request.amount, persona)
        decision == RewardDecisionResponse(policy, nextId, t.request,
                                           persona, xp, reward)
    IN  /\ threads' = [threads EXCEPT ![p] =
              [t EXCEPT !.pc = IF settings.enable_idempotency
                               THEN "idem_set" ELSE "last_reward",
                        !.path = path,
                        !.daily_spend = daily_spend,
                        !.seed = seed,
                        !.found = "none",
                        !.decision = Some(decision)]]
        /\ nextId' = nextId + 1

(* the weighted selection by hash(user_id) % 100 *)
Select(p, daily_spend) ==
    LET seed == hashSeed[threads[p].request.user_id]
    IN  Assemble(p, select_reward(policy, seed, threads[p].request.amount),
                 "select", daily_spend, Some(seed))

(* step 4, _determine_reward up to the cooldown lookup *)
Determine(p) ==
    /\ threads[p].pc = "determine"
    /\ LET t == threads[p]
           user_id == t.request.user_id
           amount == t.request.amount
           daily_cap == get_daily_cac_cap(policy, t.persona[1].persona)
           daily_spend == get_daily_cac_spend(data, user_id, now)
           spend == IF daily_cap > 0 THEN Some(daily_spend) ELSE None
       IN  /\ data' = IF daily_cap > 0
                      THEN Cache_after_get(data, cac_key(user_id, now), now)
                      ELSE data
           /\ IF daily_cap > 0 /\ cap_exceeded(daily_spend, amount, daily_cap)
              THEN Assemble(p, <<"XP", 0>>, "cap", spend, None)
              ELSE IF prefer_xp_mode(policy)
              THEN Assemble(p, <<"XP", 0>>, "prefer", spend, None)
              ELSE IF cooldown_enabled(policy)
              THEN /\ threads' = [threads EXCEPT ![p] =
                         [t EXCEPT !.pc = "cooldown", !.daily_spend = spend,
                                   !.found = "none"]]
                   /\ UNCHANGED nextId
              ELSE Select(p, spend)
    /\ UNCHANGED <<now, policy, settings, backend, hashSeed, personas, log, gen,
                   epoch, load, used>>

Cooldown_skipped(p) ==
    /\ threads[p].pc = "cooldown"
    /\ LET user_id == threads[p].request.user_id
       IN  /\ data' = Cache_after_get(data, last_reward_key(user_id), now)
           /\ Select(p, threads[p].daily_spend)
    /\ UNCHANGED <<now, policy, settings, backend, hashSeed, personas, log, gen,
                   epoch, load, used>>

(* step 4, _determine_reward from the cooldown lookup on *)
Cooldown(p) ==
    /\ threads[p].pc = "cooldown"
    /\ LET user_id == threads[p].request.user_id
       IN  /\ data' = Cache_after_get(data, last_reward_key(user_id), now)
           /\ IF is_in_cooldown(policy, data, user_id, now)
              THEN Assemble(p, <<"XP", 0>>, "cooldown",
                            threads[p].daily_spend, None)
              ELSE Select(p, threads[p].daily_spend)
    /\ UNCHANGED <<now, policy, settings, backend, hashSeed, personas, log, gen,
                   epoch, load, used>>

IdemSet_if_absent(p) ==
    /\ threads[p].pc = "idem_set"
    /\ LET key == KeyOf(p)
       IN  /\ data' = IF Live(data, key, now) THEN data
                      ELSE Cache_set(data, key, threads[p].decision[1],
                                     Some(idempotency_ttl), now)
           /\ gen' = IF Live(data, key, now) \/ backend = "redis" THEN gen
                     ELSE [gen EXCEPT ![key] = @ + 1]
           /\ threads' = [threads EXCEPT ![p] =
                 [@ EXCEPT !.pc = "last_reward",
                           !.entryExpiry = IF backend = "redis" THEN None
                                           ELSE data'[key].expiry,
                           !.writeSeq = Some(used.writes[key] + 1)]]
           /\ used' = [used EXCEPT !.writes[key] = @ + 1]
    /\ UNCHANGED <<now, policy, settings, backend, hashSeed, personas, nextId,
                   log, epoch, load>>

(* step 6: the idempotency write *)
IdemSet(p) ==
    /\ threads[p].pc = "idem_set"
    /\ LET key == KeyOf(p)
       IN  /\ data' = Cache_set(data, key, threads[p].decision[1],
                                Some(idempotency_ttl), now)
           /\ gen' = IF Live(data, key, now) \/ backend = "redis" THEN gen
                     ELSE [gen EXCEPT ![key] = @ + 1]
           /\ threads' = [threads EXCEPT ![p] =
                 [@ EXCEPT !.pc = "last_reward",
                           !.entryExpiry = IF backend = "redis" THEN None
                                           ELSE data'[key].expiry,
                           !.writeSeq = Some(used.writes[key] + 1)]]
           /\ used' = [used EXCEPT !.writes[key] = @ + 1]
    /\ UNCHANGED <<now, policy, settings, backend, hashSeed, personas, nextId, log,
                   epoch, load>>

UpdateLastReward_and_spend(p) ==
    /\ threads[p].pc = "last_reward"
    /\ LET user_id == threads[p].request.user_id
           spent == get_daily_cac_spend(data, user_id, now)
                    + threads[p].decision[1].reward_value
       IN  data' = Cache_set(Cache_set(data, last_reward_key(user_id),
                                       reward_timestamp(threads[p].request.ts,
                                                        now),
                                       Some(last_reward_cache_ttl), now),
                             cac_key(user_id, now), spent, Some(cac_ttl), now)
    /\ Return(p, [threads[p] EXCEPT !.pc = "returned",
                                    !.doneTime = Some(now)])
    /\ UNCHANGED <<now, policy, settings, backend, hashSeed, personas, nextId,
                   gen, epoch, load, used>>

(* step 7: _update_last_reward, and the return of the fresh decision *)
UpdateLastReward(p) ==
    /\ threads[p].pc = "last_reward"
    /\ data' = Cache_set(data, last_reward_key(threads[p].request.user_id),
                         reward_timestamp(threads[p].request.ts, now),
                         Some(last_reward_cache_ttl), now)
    /\ Return(p, [threads[p] EXCEPT !.pc = "returned",
                                    !.doneTime = Some(now)])
    /\ UNCHANGED <<now, policy, settings, backend, hashSeed, personas, nextId, gen,
                   epoch, load, used>>

----------------------------------------------------------------------------
(* _update_daily_cac_spend, called from outside decide: the key of today,
   then a read through _get_daily_cac_spend (which takes the date anew),
   then a write *)

(* the ledger of the callers: per user and day on which an update began,
   the sum of the amounts of the updates that completed *)
Recorded(ledger, user_id, day) ==
    IF <<user_id, day>> \in DOMAIN ledger THEN ledger[<<user_id, day>>] ELSE 0

Record(ledger, user_id, day, amount) ==
    [x \in DOMAIN ledger \cup {<<user_id, day>>} |->
        IF x = <<user_id, day>> THEN Recorded(ledger, user_id, day) + amount
        ELSE ledger[x]]

SpendBegin(p) ==
    /\ threads[p].pc = "idle"
    /\ used.spends < load.spends
    /\ \E user_id \in load.users, amount \in load.amounts :
          threads' = [threads EXCEPT ![p] =
                [pc |-> "spend_read", op |-> "spend", user_id |-> user_id,
                 amount |-> amount, cache_key |-> cac_key(user_id, now),
                 current |-> None, beginTime |-> now, readTime |-> None,
                 overlapped |-> FALSE]]
    /\ used' = [used EXCEPT !.spends = @ + 1]
    /\ UNCHANGED <<now, policy, settings, backend, hashSeed, data, personas,
                   nextId, log, gen, epoch, load>>

SpendRead(p) ==
    /\ threads[p].pc = "spend_read"
    /\ LET user_id == threads[p].user_id
       IN  /\ threads' = [threads EXCEPT ![p] =
                 [@ EXCEPT !.pc = "spend_write",
                           !.current = Some(get_daily_cac_spend(data, user_id,
                                                                now)),
                           !.readTime = Some(now)]]
           /\ data' = Cache_after_get(data, cac_key(user_id, now), now)
    /\ UNCHANGED <<now, policy, settings, backend, hashSeed, personas, nextId, log,
                   gen, epoch, load, used>>

SpendWrite_atomic(p) ==
    /\ threads[p].pc = "spend_write"
    /\ data' = Cache_set(data, threads[p].cache_key,
                         get_daily_cac_spend(data, threads[p].user_id, now)
                            + threads[p].amount,
                         Some(cac_ttl), now)
    /\ threads' = [q \in Threads |->
          IF q = p THEN Idle
          ELSE IF /\ threads[q].pc = "spend_write"
                  /\ threads[q].cache_key = threads[p].cache_key
          THEN [threads[q] EXCEPT !.overlapped = TRUE]
          ELSE threads[q]]
    /\ used' = [used EXCEPT !.recorded =
                  Record(@, threads[p].user_id,
                         threads[p].beginTime \div HoursPerDay,
                         threads[p].amount)]
    /\ UNCHANGED <<now, policy, settings, backend, hashSeed, personas, nextId, log,
                   gen, epoch, load>>

SpendWrite(p) ==
    /\ threads[p].pc = "spend_write"
    /\ data' = Cache_set(data, threads[p].cache_key,
                         threads[p].current[1] + threads[p].amount,
                         Some(cac_ttl), now)
    /\ threads' = [q \in Threads |->
          IF q = p THEN Idle
          ELSE IF /\ threads[q].pc = "spend_write"
                  /\ threads[q].cache_key = threads[p].cache_key
          THEN [threads[q] EXCEPT !.overlapped = TRUE]
          ELSE threads[q]]
    /\ used' = [used EXCEPT !.recorded =
                  Record(@, threads[p].user_id,
                         threads[p].beginTime \div HoursPerDay,
                         threads[p].amount)]
    /\ UNCHANGED <<now, policy, settings, backend, hashSeed, personas, nextId, log,
                   gen, epoch, load>>

----------------------------------------------------------------------------
(* update_persona, called from outside decide: the dataset entry, then the
   cache entry.  used.updated[u] is the record of the update of u that
   completed last, while no update of u is in flight. *)

UpdateBegin(p) ==
    /\ threads[p].pc = "idle"
    /\ used.updates < load.updates
    /\ \E persona \in load.records :
          LET user_id == persona.user_id
          IN  /\ personas' = [x \in DOMAIN personas \cup {user_id} |->
                                IF x = user_id THEN model_dump(persona)
                                ELSE personas[x]]
              /\ threads' = [threads EXCEPT ![p] =
                    [pc |-> "update_cache", op |-> "update",
                     user_id |-> user_id, persona |-> persona]]
              /\ used' = [used EXCEPT !.updates = @ + 1,
                                      !.updated[user_id] = None]
    /\ UNCHANGED <<now, policy, settings, backend, hashSeed, data, nextId, log,
                   gen, epoch, load>>

UpdateCache(p) ==
    /\ threads[p].pc = "update_cache"
    /\ LET user_id == threads[p].user_id
       IN  /\ data' = Cache_set(data, persona_key(user_id), threads[p].persona,
                                Some(persona_cache_ttl), now)
           /\ used' = [used EXCEPT !.updated[user_id] =
                          IF \E q \in Threads \ {p} :
                                /\ threads[q].pc = "update_cache"
                                /\ threads[q].user_id = user_id
                          THEN None ELSE Some(threads[p].persona)]
    /\ threads' = [threads EXCEPT ![p] = Idle]
    /\ UNCHANGED <<now, policy, settings, backend, hashSeed, personas, nextId,
                   log, gen, epoch, load>>

----------------------------------------------------------------------------
(* infer_persona, called from outside decide; used.inferred is the argument
   and the result of the call made last *)

InferPersona ==
    /\ used.infers < load.infers
    /\ \E n \in load.purchases :
          used' = [used EXCEPT
                      !.infers = @ + 1,
                      !.inferred = Some([lifetime_purchases |-> n,
                                         result |-> infer_persona(n)])]
    /\ UNCHANGED <<now, policy, settings, backend, hashSeed, data, personas,
                   threads, nextId, log, gen, epoch, load>>

----------------------------------------------------------------------------
(* the environment *)

Tick ==
    /\ used.ticks < load.ticks
    /\ \E d \in load.steps : now' = now + d
    /\ used' = [used EXCEPT !.ticks = @ + 1]
    /\ UNCHANGED <<policy, settings, backend, hashSeed, data, personas, threads,
                   nextId, log, gen, epoch, load>>

(* the process is restarted with the same policy, settings and personas
   file: the in-memory cache is empty again, the calls in flight are gone,
   and str hashes are salted anew; the dataset is read from the file again,
   which is what it holds as long as update_persona was not called *)
Restart ==
    /\ epoch < load.restarts
    /\ used.updates = 0
    /\ epoch' = epoch + 1
    /\ data' = IF backend = "redis" THEN data ELSE <<>>
    /\ threads' = [p \in Threads |-> Idle]
    /\ hashSeed' \in [UserIds -> SeedValues]
    /\ UNCHANGED <<now, policy, settings, backend, personas, nextId, log, gen, load,
                   used>>

----------------------------------------------------------------------------
(* The runs.  Each starts a process on an empty cache; they differ in the  *)
(* configuration the process loads and in what its clients send.           *)

Requests(txns, users, merchants, amounts, tss) ==
    {r \in RewardDecisionRequest :
        /\ r.txn_id \in txns /\ r.user_id \in users
        /\ r.merchant_id \in merchants /\ r.amount \in amounts /\ r.ts \in tss}

Process(nthreads) ==
    /\ now = 0
    /\ threads = [p \in 1..nthreads |-> Idle]
    /\ nextId = 1
    /\ log = <<>>
    /\ gen = [k \in IdemKeys |-> 0]
    /\ epoch = 0
    /\ used = [calls |-> 0, spends |-> 0, ticks |-> 0, invalid |-> 0,
               updates |-> 0, updated |-> [u \in UserIds |-> None],
               recorded |-> <<>>,
               writes |-> [k \in IdemKeys |-> 0],
               infers |-> 0, inferred |-> None]

(* a process on the in-memory cache *)
Boot(nthreads) ==
    /\ Process(nthreads)
    /\ backend = "memory"
    /\ data = <<>>

DefaultSeeds == [u \in UserIds |-> 70]

FirstFile == CHOOSE f \in PersonaFiles : f["u"].persona = "RETURNING"

Load(requests, users, calls, spends, ticks, steps, restarts) ==
    [requests |-> requests, users |-> users, amounts |-> SpendAmounts,
     calls |-> calls, spends |-> spends, ticks |-> ticks, steps |-> steps,
     restarts |-> restarts, updates |-> 0, records |-> {}, infers |-> 0,
     purchases |-> {}]

(* every policy, seed and persona; one thread, one user per run (for the
   user that no personas file knows, one file stands for all; the fallback
   flag, which no other flag interacts with, is switched off only next to
   the other flags of the default policy) *)
InitSweep ==
    /\ Boot(1)
    /\ policy \in Policies
    /\ ~policy.fallback_to_xp =>
          ~policy.prefer_xp_mode /\ ~policy.cooldown_enabled
    /\ settings = [enable_idempotency |-> TRUE]
    /\ personas \in PersonaFiles
    /\ \E u \in UserIds :
         /\ u \notin DOMAIN personas => personas = FirstFile
         /\ hashSeed \in {[DefaultSeeds EXCEPT ![u] = s] : s \in SeedValues}
         /\ load = Load(Requests({"t"}, {u}, MerchantIds, Amounts, {None}),
                        {u}, SweepCalls, SweepSpends, 0, {}, 0)

(* overlapping calls that carry the same idempotency key *)
InitRace ==
    /\ Boot(RaceThreads)
    /\ policy = default_config
    /\ settings = [enable_idempotency |-> TRUE]
    /\ hashSeed = DefaultSeeds
    /\ personas = FirstFile
    /\ load = Load(Requests({"t"}, {"u"}, {"m"}, {100}, {None}),
                   {}, RaceCalls, 0, 0, {}, 0)

(* overlapping calls that carry the same idempotency key, while time passes *)
InitExpiry ==
    /\ Boot(2)
    /\ policy = default_config
    /\ settings = [enable_idempotency |-> TRUE]
    /\ hashSeed = DefaultSeeds
    /\ personas = FirstFile
    /\ load = Load(Requests({"t"}, {"u"}, {"m"}, {100}, {None}),
                   {}, ExpiryCalls, 0, ExpiryTicks, {25}, 0)

(* every (txn_id, user_id, merchant_id) *)
InitKeys ==
    /\ Boot(2)
    /\ policy = default_config
    /\ settings = [enable_idempotency |-> TRUE]
    /\ hashSeed = DefaultSeeds
    /\ personas = FirstFile
    /\ load = Load(Requests(TxnIds, UserIds, MerchantIds, {1000}, {None}),
                   {}, KeysCalls, 0, 0, {}, 0)

(* one transaction sent again and again while time passes *)
InitTtl ==
    /\ Boot(1)
    /\ policy \in {default_config,
                   [default_config EXCEPT !.cooldown_enabled = TRUE]}
    /\ settings = [enable_idempotency |-> TRUE]
    /\ hashSeed = DefaultSeeds
    /\ personas = FirstFile
    /\ load = Load(Requests({"t"}, {"u"}, {"m"}, {100, 10000},
                            {None, Some(2)}),
                   {}, TtlCalls, 0, TtlTicks, TickSteps, 0)

(* what a Redis server may hold from earlier, out of reach since *)
ServerContents ==
    [k \in {"idem:t:u:m", "persona:u", "cac:u:0", "last_reward:u"} |->
        [value |->
            IF k = "idem:t:u:m"
            THEN RewardDecisionResponse(default_config, 0,
                     [txn_id |-> "t", user_id |-> "u", merchant_id |-> "m",
                      amount |-> 100, ts |-> None], "POWER", 20,
                     <<"GOLD", 2>>)
            ELSE IF k = "persona:u" THEN UserPersona("u", "POWER", 12, None)
            ELSE IF k = "cac:u:0" THEN 900
            ELSE 0,
         expiry |-> Some(24)]]

(* a process whose cache backend is a Redis server that cannot be reached *)
InitOutage ==
    /\ Process(1)
    /\ backend = "redis"
    /\ data = ServerContents
    /\ policy \in {default_config,
                   [default_config EXCEPT !.cooldown_enabled = TRUE]}
    /\ settings \in SettingsValues
    /\ hashSeed = DefaultSeeds
    /\ personas \in PersonaFiles
    /\ load = Load(Requests({"t"}, UserIds, {"m"}, {100, 1000}, {None}),
                   {"u"}, OutageCalls, OutageSpends, 0, {}, 0)

(* clients that also send amounts that are not positive *)
InitInvalid ==
    /\ Boot(1)
    /\ policy = default_config
    /\ settings \in SettingsValues
    /\ hashSeed = DefaultSeeds
    /\ personas = FirstFile
    /\ load = Load({r \in RequestBodies :
                       /\ r.txn_id = "t" /\ r.user_id = "u"
                       /\ r.merchant_id \in MerchantIds
                       /\ r.amount \in {100} \cup InvalidAmounts
                       /\ r.ts = None},
                   {"u"}, InvalidCalls, InvalidSpends, 0, {}, 0)

(* settlement jobs that record payouts while decide is being called *)
InitSpend ==
    /\ Boot(2)
    /\ policy = default_config
    /\ settings = [enable_idempotency |-> FALSE]
    /\ hashSeed = DefaultSeeds
    /\ personas = FirstFile
    /\ load = [Load(Requests({"t"}, {"u"}, {"m"}, {1000}, {None}),
                    {"u"}, SpendCalls, SpendUpdates, 0, {}, 0)
                EXCEPT !.amounts = {100, 200}]

(* a settlement job that records payouts one after the other, over days *)
InitLedger ==
    /\ Boot(1)
    /\ policy = default_config
    /\ settings = [enable_idempotency |-> FALSE]
    /\ hashSeed = DefaultSeeds
    /\ personas = FirstFile
    /\ load = [Load(Requests({"t"}, {"u"}, {"m"}, {1000}, {None}),
                    UserIds, 0, LedgerUpdates, LedgerTicks,
                    {24}, 0)
                EXCEPT !.amounts = {100, 200}]

(* requests that carry a timestamp of their own, or none, sent to a process
   whose policy has the cooldown on, while hours and days pass *)
InitStamp ==
    /\ Boot(1)
    /\ policy = [default_config EXCEPT !.cooldown_enabled = TRUE]
    /\ settings = [enable_idempotency |-> FALSE]
    /\ hashSeed = DefaultSeeds
    /\ personas = FirstFile
    /\ load = Load(Requests({"t"}, {"u"}, {"m"}, {100}, Timestamps),
                   {}, StampCalls, 0, StampTicks, {1, 23, 24}, 0)

(* policy files with reward-type weights of their own, and every seed next
   to a threshold *)
InitWeights ==
    /\ Boot(1)
    /\ policy \in {[default_config EXCEPT !.reward_types = w] : w \in WeightMaps}
    /\ settings = [enable_idempotency |-> FALSE]
    /\ hashSeed \in {[DefaultSeeds EXCEPT !["u"] = s] : s \in WeightSeeds}
    /\ personas = FirstFile
    /\ load = Load(Requests({"t"}, {"u"}, {"m"}, PayoutAmounts \cup {1000},
                            {None}),
                   {}, WeightCalls, 0, 0, {}, 0)

(* maintenance callers that update the persona of a user while decide is
   being called for that user *)
InitPersona ==
    /\ Boot(2)
    /\ policy = default_config
    /\ settings = [enable_idempotency |-> FALSE]
    /\ hashSeed = DefaultSeeds
    /\ personas = FirstFile
    /\ load = [Load(Requests({"t"}, {"u"}, {"m"}, {100}, {None}),
                    {}, PersonaCalls, 0, 0, {}, 0)
                EXCEPT !.updates = PersonaUpdates, !.records = PersonaRecords]

(* a maintenance caller and decide calls, one after the other, while the
   persona cache entries expire *)
InitPersonaTtl ==
    /\ Boot(1)
    /\ policy = default_config
    /\ settings = [enable_idempotency |-> FALSE]
    /\ hashSeed = DefaultSeeds
    /\ personas = FirstFile
    /\ load = [Load(Requests({"t"}, UserIds, {"m"}, {100}, {None}),
                    {}, PersonaCalls, 0, PersonaTicks, {2}, 0)
                EXCEPT !.updates = PersonaUpdates, !.records = PersonaRecords]

(* a payout recorded on one day, and a request decided later that day or
   on the next *)
InitRollover ==
    /\ Boot(1)
    /\ policy = default_config
    /\ settings = [enable_idempotency |-> FALSE]
    /\ hashSeed = DefaultSeeds
    /\ personas = FirstFile
    /\ load = Load(Requests({"t"}, {"u"}, {"m"}, {1000}, {None}),
                   {"u"}, RolloverCalls, RolloverSpends, RolloverTicks,
                   {23, 24}, 0)

(* overlapping calls that carry the same idempotency key, under a policy
   with the cooldown on *)
InitCooldownRace ==
    /\ Boot(2)
    /\ policy = [default_config EXCEPT !.cooldown_enabled = TRUE]
    /\ settings = [enable_idempotency |-> TRUE]
    /\ hashSeed = DefaultSeeds
    /\ personas = FirstFile
    /\ load = Load(Requests({"t"}, {"u"}, {"m"}, {100}, {None}),
                   {}, CooldownRaceCalls, 0, 0, {}, 0)

(* one user's requests, hours and days apart, under policies whose cooldown
   is shorter than, as long as, and longer than the lifetime of the
   last-reward entry *)
InitWindow ==
    /\ Boot(1)
    /\ policy \in {[default_config EXCEPT !.cooldown_enabled = TRUE,
                                          !.cooldown_hours = h] :
                      h \in CooldownHours}
    /\ settings = [enable_idempotency |-> FALSE]
    /\ hashSeed = DefaultSeeds
    /\ personas = FirstFile
    /\ load = Load(Requests({"t"}, {"u"}, {"m"}, {100}, {None}),
                   {}, WindowCalls, 0, WindowTicks, {1, 25}, 0)

(* a caller of infer_persona next to decide calls, over personas files whose
   stored persona is not the inferred one *)
InitInfer ==
    /\ Boot(1)
    /\ policy = default_config
    /\ settings = [enable_idempotency |-> FALSE]
    /\ hashSeed = DefaultSeeds
    /\ personas \in InferFiles
    /\ load = [Load(Requests({"t"}, UserIds, {"m"}, {100}, {None}),
                    {}, InferDecides, 0, 0, {}, 0)
                EXCEPT !.infers = InferCalls, !.purchases = InferInputs]

(* a process that is restarted *)
InitRestart ==
    /\ Boot(1)
    /\ policy = default_config
    /\ settings \in SettingsValues
    /\ hashSeed \in {[u \in UserIds |-> s] : s \in SeedValues}
    /\ personas \in PersonaFiles
    /\ load = Load(Requests({"t"}, UserIds, {"m"}, {1000}, {None}),
                   {}, RestartCalls, 0, 0, {}, MaxRestarts)

Init ==
    \/ InitSweep \/ InitRace \/ InitExpiry \/ InitKeys \/ InitTtl \/ InitRestart
    \/ InitOutage \/ InitInvalid \/ InitSpend \/ InitLedger
    \/ InitStamp \/ InitWeights \/ InitPersona \/ InitPersonaTtl
    \/ InitRollover \/ InitCooldownRace \/ InitWindow \/ InitInfer

Next ==
    \/ \E p \in Threads : Start(p)
    \/ \E p \in Threads : IdemCheck(p)
    \/ \E p \in Threads : GetPersona(p)
    \/ \E p \in Threads : SetPersona(p)
    \/ \E p \in Threads : Determine(p)
    \/ \E p \in Threads : Cooldown(p)
    \/ \E p \in Threads : IdemSet(p)
    \/ \E p \in Threads : UpdateLastReward(p)
    \/ \E p \in Threads : SpendBegin(p)
    \/ \E p \in Threads : SpendRead(p)
    \/ \E p \in Threads : SpendWrite(p)
    \/ \E p \in Threads : UpdateBegin(p)
    \/ \E p \in Threads : UpdateCache(p)
    \/ InferPersona
    \/ Tick
    \/ Restart

Spec == Init /\ [][Next]_vars

----------------------------------------------------------------------------
(* The in-memory cache on its own: a client that calls its operations with *)
(* keys, values and TTLs of its choice while time passes.  threads[1] is   *)
(* the call it made last, what it found and what it returned;              *)
(* used.written is what it                                                 *)
(* last wrote with set under a key that nothing but get and exists touched *)
(* since.                                                                  *)

CacheKeys == {"a", "b"}
CacheValues == {5, 7}
CacheTtls == {None, Some(1), Some(2)}
CacheAmounts == {1, 3}

CacheCall(op, key, arg, result) ==
    [pc |-> "idle", op |-> op, key |-> key, arg |-> arg, result |-> result,
     found |-> IF key \notin DOMAIN data THEN "absent"
               ELSE IF Expired(data, key, now) THEN "expired" ELSE "live"]

CacheOp(op, key, arg, result, after, written) ==
    /\ used.calls < load.calls
    /\ data' = after
    /\ threads' = [threads EXCEPT ![1] = CacheCall(op, key, arg, result)]
    /\ used' = [used EXCEPT !.calls = @ + 1, !.written = written]
    /\ UNCHANGED <<now, policy, settings, backend, hashSeed, personas,
                   nextId, log, gen, epoch, load>>

CacheGet ==
    \E key \in CacheKeys :
        CacheOp("get", key, None, cache_get(data, key, now),
                cache_after_get(data, key, now), used.written)

CacheSet ==
    \E key \in CacheKeys, value \in CacheValues, ttl \in CacheTtls :
        CacheOp("set", key, Some(value), TRUE, cache_set(data, key, value, ttl, now),
                [used.written EXCEPT ![key] =
                    Some([value |-> value, ttl |-> ttl, time |-> now])])

CacheDelete ==
    \E key \in CacheKeys :
        CacheOp("delete", key, None, cache_delete_result(data, key),
                cache_delete(data, key),
                [used.written EXCEPT ![key] = None])

CacheExists ==
    \E key \in CacheKeys :
        CacheOp("exists", key, None, cache_exists(data, key, now),
                cache_after_get(data, key, now), used.written)

CacheIncrement ==
    \E key \in CacheKeys, amount \in CacheAmounts :
        CacheOp("increment", key, Some(amount),
                cache_increment_result(data, key, amount, now),
                cache_increment(data, key, amount, now),
                [used.written EXCEPT ![key] = None])

InitCache ==
    /\ now = 0
    /\ backend = "memory"
    /\ data = <<>>
    /\ threads = [p \in {1} |-> Idle]
    /\ policy = default_config
    /\ settings = [enable_idempotency |-> TRUE]
    /\ hashSeed = DefaultSeeds
    /\ personas = FirstFile
    /\ nextId = 1
    /\ log = <<>>
    /\ gen = [k \in IdemKeys |-> 0]
    /\ epoch = 0
    /\ load = Load({}, {}, CacheCalls, 0, CacheTicks, {1}, 0)
    /\ used = [calls |-> 0, ticks |-> 0,
               written |-> [k \in CacheKeys |-> None]]

NextCache ==
    \/ CacheGet
    \/ CacheSet
    \/ CacheDelete
    \/ CacheExists
    \/ CacheIncrement
    \/ Tick

SpecCache == InitCache /\ [][NextCache]_vars

(* the runs in which calls never overlap *)
InitSeq == Init /\ DOMAIN threads = {1}

SpecSeq == InitSeq /\ [][Next]_vars

----------------------------------------------------------------------------
(* Properties *)

Calls == 1..Len(log)
Req(i) == log[i].request
Dec(i) == log[i].decision[1]
Fresh(i) == ~log[i].hit

SameTriple(r1, r2) ==
    /\ r1.txn_id = r2.txn_id
    /\ r1.user_id = r2.user_id
    /\ r1.merchant_id = r2.merchant_id

SameKey(i, j) == build_idempotency_key(Req(i)) = build_idempotency_key(Req(j))

SameOutcome(i, j) ==
    /\ Dec(i).decision_id = Dec(j).decision_id
    /\ Dec(i).reward_type = Dec(j).reward_type
    /\ Dec(i).reward_value = Dec(j).reward_value
    /\ Dec(i).xp = Dec(j).xp

(* call i returned before call j was made, and the idempotency entry that
   call i wrote or read has not expired when call j looks it up *)
Repeats(i, j) ==
    /\ i <= log[j].startIdx
    /\ SameTriple(Req(i), Req(j))
    /\ log[i].epoch = log[j].epoch
    /\ log[i].entryExpiry # None
    /\ log[j].checkTime # None
    /\ ~(log[j].checkTime[1] > log[i].entryExpiry[1])

(* C1: when decide has returned and is called again with the same
   (txn_id, user_id, merchant_id) while the idempotency entry is live, the
   second call returns the decision_id, reward_type, reward_value and xp of
   the first, whatever its amount; calls do not overlap (SpecSeq). *)
C1_SequentialIdempotence ==
    \A i \in Calls, j \in Calls : Repeats(i, j) => SameOutcome(i, j)

C1_Witness ==
    \E i \in Calls, j \in Calls :
        /\ Repeats(i, j)
        /\ Fresh(i)
        /\ log[j].hit
        /\ Req(i).amount = 100
        /\ Req(j).amount = 10000

ValueChanged(k) ==
    /\ Live(data, k, now)
    /\ k \in DOMAIN data'
    /\ data'[k].value # data[k].value

(* C2, as stated: the value stored under an idempotency key never changes
   while the entry is live, under any interleaving of decide calls. *)
C2_Original == [][\A k \in IdemKeys : ~ValueChanged(k)]_vars

(* C2, amended: while an idempotency entry is live, the value stored under
   its key is changed only by the idempotency write of a decide call that
   began before the entry was written; no call that begins after the write
   changes it. *)
C2_NoLateOverwrite ==
    [][\A k \in IdemKeys :
          ValueChanged(k) =>
             \E p \in Threads :
                 /\ threads[p].pc = "idem_set"
                 /\ threads'[p].pc = "last_reward"
                 /\ KeyOf(p) = k
                 /\ threads[p].startGen < gen[k]]_vars

(* an entry that a returned call wrote, overwritten in its lifetime *)
C2_Witness ==
    \E i \in Calls :
        LET k == build_idempotency_key(Req(i))
        IN  /\ Fresh(i)
            /\ log[i].epoch = epoch
            /\ gen[k] = 1
            /\ Live(data, k, now)
            /\ data[k].value.decision_id # Dec(i).decision_id

(* C3, as stated: two decide calls with the same key that both begin after
   the first idempotency write for the key, before the entry expires,
   return the same decision_id, whatever other calls are in flight. *)
C3_Original ==
    \A i \in Calls, j \in Calls :
        ( /\ SameKey(i, j)
          /\ log[i].epoch = log[j].epoch
          /\ log[i].startLive /\ log[j].startLive
          /\ log[i].startGen = log[j].startGen )
        => Dec(i).decision_id = Dec(j).decision_id

(* the call began when the entry was live and no call that missed the cache
   for its key was still in flight, and looked up before that entry expired *)
Settled(i) ==
    /\ log[i].startQuiet
    /\ log[i].checkTime # None
    /\ ~(log[i].checkTime[1] > log[i].startExpiry[1])

(* C3, amended: two decide calls with the same key return the same
   decision_id when both begin while the entry is live and no decide call
   that missed the cache for that key is still in flight, and both look up
   before that entry expires. *)
C3_EventualIdempotency ==
    \A i \in Calls, j \in Calls :
        ( /\ SameKey(i, j)
          /\ log[i].epoch = log[j].epoch
          /\ log[i].startGen = log[j].startGen
          /\ Settled(i) /\ Settled(j) )
        => Dec(i).decision_id = Dec(j).decision_id

(* two settled calls after a race that two calls computed in *)
C3_Witness ==
    \E i \in Calls, j \in Calls, m \in Calls, n \in Calls :
        /\ i # j /\ m # n
        /\ SameKey(i, j) /\ SameKey(i, m) /\ SameKey(i, n)
        /\ log[i].startGen = log[j].startGen
        /\ Settled(i) /\ Settled(j)
        /\ Fresh(m) /\ Fresh(n)
        /\ log[m].startGen = 0 /\ log[n].startGen = 0
        /\ log[i].startGen = 1

DiffersInOne(r1, r2) ==
    \/ r1.txn_id # r2.txn_id /\ r1.user_id = r2.user_id
                             /\ r1.merchant_id = r2.merchant_id
    \/ r1.txn_id = r2.txn_id /\ r1.user_id # r2.user_id
                             /\ r1.merchant_id = r2.merchant_id
    \/ r1.txn_id = r2.txn_id /\ r1.user_id = r2.user_id
                             /\ r1.merchant_id # r2.merchant_id

(* C4: two decide calls whose requests differ in exactly one of txn_id,
   user_id and merchant_id return different decision_ids (neither is
   answered from the other's entry), and no two fresh computations produce
   the same decision_id. *)
C4_DistinctKeys ==
    \A i \in Calls, j \in Calls :
        /\ DiffersInOne(Req(i), Req(j))
              => Dec(i).decision_id # Dec(j).decision_id
        /\ (i # j /\ Fresh(i) /\ Fresh(j))
              => Dec(i).decision_id # Dec(j).decision_id

C4_Witness ==
    \E i \in Calls, j \in Calls :
        /\ i < j
        /\ settings.enable_idempotency
        /\ Req(i).txn_id = Req(j).txn_id
        /\ Req(i).user_id = Req(j).user_id
        /\ Req(i).merchant_id # Req(j).merchant_id
        /\ i <= log[j].startIdx
        /\ Fresh(j)

(* C5: under the default policy every decision for a user whose persona is
   NEW has reward_value 0, for every seed and amount. *)
C5_NewNeverPaid ==
    \A i \in Calls :
        (policy = default_config /\ Dec(i).meta.persona = "NEW")
            => Dec(i).reward_value = 0

(* amount * xp_per_rupee * multiplier, in hundredths *)
XpProduct(i) ==
    Req(i).amount * policy.xp_per_rupee
                  * policy.persona_multipliers[Dec(i).meta.persona]

(* C6: the xp of a fresh decision is min(floor(amount * xp_per_rupee *
   multiplier), max_xp_per_txn), so 0 <= xp <= max_xp_per_txn; amount 1000
   gives 100 (NEW), 150 (RETURNING), 200 (POWER), amount 10000 gives 500
   for POWER. *)
C6_XpFormula ==
    \A i \in Calls :
        Fresh(i) =>
            LET xp == Dec(i).xp
                persona == Dec(i).meta.persona
            IN  /\ 0 <= xp /\ xp <= policy.max_xp_per_txn
                /\ xp < policy.max_xp_per_txn =>
                      (100 * xp <= XpProduct(i) /\ XpProduct(i) < 100 * (xp + 1))
                /\ xp = policy.max_xp_per_txn =>
                      100 * xp <= XpProduct(i)
                /\ (Req(i).amount = 1000 /\ persona = "NEW") => xp = 100
                /\ (Req(i).amount = 1000 /\ persona = "RETURNING") => xp = 150
                /\ (Req(i).amount = 1000 /\ persona = "POWER") => xp = 200
                /\ (Req(i).amount = 10000 /\ persona = "POWER") => xp = 500

C6_Witness ==
    \E i \in Calls, j \in Calls :
        /\ Fresh(i) /\ Fresh(j)
        /\ Req(i).amount = 10000 /\ Dec(i).meta.persona = "POWER"
        /\ Dec(i).xp = 500
        /\ Req(j).amount = 1000 /\ Dec(j).xp = 200

(* C7: every decision decide returns, fresh or replayed, has reward_value 0
   when its reward_type is XP, and reward_value >= 0 always. *)
C7_XpPaysNothing ==
    \A i \in Calls :
        /\ Dec(i).reward_type = "XP" => Dec(i).reward_value = 0
        /\ Dec(i).reward_value >= 0

C7_Witness ==
    \E i \in Calls, j \in Calls :
        /\ log[j].hit /\ Dec(j).reward_type = "XP"
        /\ Fresh(i) /\ Dec(i).reward_type = "XP" /\ log[i].path = "select"
        /\ SameTriple(Req(i), Req(j))

CapOf(i) == policy.daily_cap_per_persona[Dec(i).meta.persona]

(* the spend recorded for the user of call i on the day of the call, as the
   cache held it when the call checked the cap *)
SpendOf(i) == log[i].daily_spend[1]

(* C8: for a persona whose daily cap is > 0, a fresh decide returns (XP, 0)
   from the cap check whenever recorded spend + amount > cap, whatever
   fallback_to_xp, prefer_xp_mode, cooldown and the seed are; at
   spend + amount = cap the cap check does not fire. *)
C8_CapCheck ==
    \A i \in Calls :
        (Fresh(i) /\ CapOf(i) > 0) =>
            /\ SpendOf(i) + Req(i).amount > CapOf(i) =>
                  /\ Dec(i).reward_type = "XP"
                  /\ Dec(i).reward_value = 0
                  /\ log[i].path = "cap"
            /\ SpendOf(i) + Req(i).amount = CapOf(i) => log[i].path # "cap"

C8_Witness ==
    \E i \in Calls, j \in Calls :
        /\ Fresh(i) /\ Fresh(j)
        /\ ~policy.fallback_to_xp
        /\ hashSeed[Req(i).user_id] = 70
        /\ CapOf(i) = 1000
        /\ SpendOf(i) = 900 /\ Req(i).amount = 1000 /\ log[i].path = "cap"
        /\ SpendOf(j) = 900 /\ Req(j).amount = 100 /\ log[j].path = "select"
        /\ Dec(j).reward_value > 0

(* C9: within one process and one policy, two fresh decisions for the same
   user_id that the cap check, prefer_xp_mode and cooldown did not cut
   short have the same reward_type, whatever their amounts, txn_ids and
   merchant_ids. *)
C9_SameTypePerUser ==
    \A i \in Calls, j \in Calls :
        ( /\ Fresh(i) /\ Fresh(j)
          /\ log[i].epoch = log[j].epoch
          /\ Req(i).user_id = Req(j).user_id
          /\ log[i].path = "select" /\ log[j].path = "select" )
        => Dec(i).reward_type = Dec(j).reward_type

C9_Witness ==
    \E i \in Calls, j \in Calls :
        /\ Fresh(i) /\ Fresh(j)
        /\ log[i].epoch = log[j].epoch
        /\ Req(i).user_id = Req(j).user_id
        /\ Req(i).amount # Req(j).amount
        /\ Req(i).merchant_id # Req(j).merchant_id
        /\ log[i].path = "select" /\ log[j].path = "select"
        /\ Dec(i).reward_type = "GOLD"

(* C10: the selection seed is a fixed function of user_id: two runs of the
   engine (before and after a restart) that reach the selection for the
   same user compute the same seed, and for the same amount the same
   reward_type and reward_value. *)
C10_SeedStableAcrossRuns ==
    \A i \in Calls, j \in Calls :
        ( /\ Fresh(i) /\ Fresh(j)
          /\ Req(i).user_id = Req(j).user_id
          /\ Req(i).amount = Req(j).amount
          /\ log[i].path = "select" /\ log[j].path = "select" )
        => /\ log[i].seed = log[j].seed
           /\ Dec(i).reward_type = Dec(j).reward_type
           /\ Dec(i).reward_value = Dec(j).reward_value

PersonaCode ==
    [NEW |-> "NEW_USER", RETURNING |-> "RETURNING_USER", POWER |-> "POWER_USER"]

RewardCode ==
    [XP |-> "XP_MODE_ENABLED", CHECKOUT |-> "CHECKOUT_REWARD",
     GOLD |-> "GOLD_REWARD"]

(* C11: the reason_codes of every fresh decision are, in this order, the
   code of the persona that get_persona resolved, the code of the returned
   reward_type, PREFER_XP_MODE iff prefer_xp_mode is set and
   COOLDOWN_POLICY_ENABLED iff cooldown is enabled, whichever step (cap
   check, prefer_xp_mode, cooldown, selection) decided the reward. *)
C11_ReasonCodes ==
    \A i \in Calls :
        Fresh(i) =>
            LET codes == Dec(i).reason_codes
                n == 2 + (IF policy.prefer_xp_mode THEN 1 ELSE 0)
                       + (IF policy.cooldown_enabled THEN 1 ELSE 0)
            IN  /\ Len(codes) = n
                /\ codes[1] = PersonaCode[log[i].persona[1].persona]
                /\ codes[2] = RewardCode[Dec(i).reward_type]
                /\ policy.prefer_xp_mode => codes[3] = "PREFER_XP_MODE"
                /\ policy.cooldown_enabled =>
                      codes[n] = "COOLDOWN_POLICY_ENABLED"

(* a decision the cap check made with both flags set, and a paid one *)
C11_Witness ==
    \E i \in Calls, j \in Calls :
        /\ Fresh(i) /\ log[i].path = "cap"
        /\ policy.prefer_xp_mode /\ policy.cooldown_enabled
        /\ Dec(i).reason_codes = <<"RETURNING_USER", "XP_MODE_ENABLED",
                                   "PREFER_XP_MODE", "COOLDOWN_POLICY_ENABLED">>
        /\ Fresh(j) /\ log[j].path = "prefer"

DatasetPersona(user_id) ==
    IF user_id \in DOMAIN personas /\ "persona" \in DOMAIN personas[user_id]
    THEN personas[user_id].persona ELSE "NEW"

DecideStep(p) ==
    \/ IdemCheck(p) \/ GetPersona(p) \/ SetPersona(p) \/ Determine(p)
    \/ Cooldown(p) \/ IdemSet(p) \/ UpdateLastReward(p)

Complete(i) ==
    /\ Dec(i).policy_version = policy.version
    /\ Dec(i).reward_type \in RewardType
    /\ Dec(i).reward_value >= 0
    /\ Dec(i).xp >= 0
    /\ Len(Dec(i).reason_codes) >= 2
    /\ Dec(i).meta.txn_id = Req(i).txn_id
    /\ Dec(i).meta.user_id = Req(i).user_id
    /\ Dec(i).meta.merchant_id = Req(i).merchant_id

(* C12: while the cache backend cannot be reached (every get returns None,
   every set stores nothing), every decide call can take its next step
   whatever the cache was asked, and every call that returns has computed
   a complete decision, with the persona of the dataset (NEW for a user
   the dataset does not know) and a daily spend read as 0. *)
C12_GracefulDegradation ==
    backend = "redis" =>
        /\ \A p \in Threads : Deciding(p) => ENABLED DecideStep(p)
        /\ \A i \in Calls :
              /\ Fresh(i)
              /\ Complete(i)
              /\ Dec(i).meta.persona = DatasetPersona(Req(i).user_id)
              /\ log[i].daily_spend \in {None, Some(0)}

(* two decisions for the user whose persona, spend and decision the
   unreachable server holds, and one for an unknown user *)
C12_Witness ==
    \E i \in Calls, j \in Calls, k \in Calls :
        /\ backend = "redis" /\ settings.enable_idempotency
        /\ used.spends = 1 /\ \A p \in Threads : threads[p] = Idle
        /\ "cac:u:0" \in DOMAIN data /\ "persona:u" \in DOMAIN data
        /\ i < j /\ SameTriple(Req(i), Req(j)) /\ Req(i).user_id = "u"
        /\ Dec(i).decision_id # Dec(j).decision_id
        /\ log[i].daily_spend = Some(0) /\ Dec(i).meta.persona = "RETURNING"
        /\ Req(k).user_id = "u:u" /\ Dec(k).meta.persona = "NEW"

(* C13: a request whose amount is <= 0 is rejected by validation: decide
   returns no decision for it, and the step that rejects it leaves every
   cache entry (idempotency record, persona entry, last_reward marker,
   daily spend counter), the calls in flight and the returned decisions as
   they were. *)
C13_InvalidRejected ==
    [][/\ \A i \in 1..Len(log') : log'[i].request.amount > 0
       /\ \A p \in Threads :
             threads'[p].op = "decide" => threads'[p].request.amount > 0
       /\ used'.invalid > used.invalid =>
             (data' = data /\ log' = log /\ threads' = threads)]_vars

(* two rejections after a decision and a recorded spend filled the cache *)
C13_Witness ==
    /\ used.invalid = 2
    /\ Len(log) = 1 /\ Fresh(1)
    /\ "last_reward:u" \in DOMAIN data /\ "persona:u" \in DOMAIN data
    /\ "cac:u:0" \in DOMAIN data
    /\ settings.enable_idempotency => "idem:t:u:m" \in DOMAIN data

(* the daily spend counters there may be by now *)
CacKeys == {cac_key(u, t) : u \in UserIds, t \in 0..now}

Decreased(k) ==
    /\ Live(data, k, now)
    /\ k \in DOMAIN data'
    /\ data'[k].value < data[k].value

(* C14, as stated: the daily spend counter of a (user_id, date) never
   decreases while its entry is live, under any interleaving of
   _update_daily_cac_spend calls with positive amounts and decide calls. *)
C14_Original == [][\A k \in CacKeys : ~Decreased(k)]_vars

(* C14, amended: while its entry is live a daily spend counter is lowered
   only by the write of an _update_daily_cac_spend call that another update
   of the same counter overlapped (it wrote between the call's read and its
   write) or in which the date changed between taking the key and reading;
   no decide call and no other update lowers it. *)
C14_SpendMonotone ==
    [][\A k \in CacKeys :
          Decreased(k) =>
             \E p \in Threads :
                 /\ threads[p].pc = "spend_write"
                 /\ threads'[p] = Idle
                 /\ threads[p].cache_key = k
                 /\ \/ threads[p].overlapped
                    \/ cac_key(threads[p].user_id, threads[p].readTime[1]) # k
      ]_vars

(* a counter that three updates that did not overlap raised twice, while a
   decide call read it *)
C14_Witness ==
    /\ Cardinality(Threads) > 1
    /\ used.spends = 3 /\ used.calls = 1
    /\ \A p \in Threads : threads[p] = Idle
    /\ Live(data, "cac:u:0", now) /\ data["cac:u:0"].value = 500
    /\ Len(log) = 1 /\ log[1].daily_spend = Some(300)

(* C15: when _update_daily_cac_spend calls do not overlap (SpecSeq),
   _get_daily_cac_spend(u) is at every moment the sum of the amounts that
   the completed updates for u recorded today: 0 when there is none, 100
   after 100, 300 after 100 then 200; the updates for another user do not
   count. *)
C15_SequentialSpend ==
    \A u \in UserIds :
        backend = "memory" =>
            get_daily_cac_spend(data, u, now)
                = Recorded(used.recorded, u, now \div HoursPerDay)

(* 200 recorded yesterday, then 100 and 200 today: 300 today *)
C15_Witness ==
    /\ \A p \in Threads : threads[p] = Idle
    /\ used.spends = 3 /\ now = 24
    /\ Recorded(used.recorded, "u", 0) = 200
    /\ Recorded(used.recorded, "u", 1) = 300
    /\ Recorded(used.recorded, "u:u", 1) = 0
    /\ get_daily_cac_spend(data, "u", now) = 300
    /\ get_daily_cac_spend(data, "u:u", now) = 0

SameCounters ==
    \A k \in CacKeys :
        /\ k \in DOMAIN data <=> k \in DOMAIN data'
        /\ k \in DOMAIN data => data'[k] = data[k]

(* C16: no step of a decide call, fresh or replayed and whatever reward it
   returns, creates, removes or changes a daily spend counter: the cap
   check sees only what _update_daily_cac_spend recorded. *)
C16_DecideKeepsSpend ==
    [][\A p \in Threads : (Start(p) \/ DecideStep(p)) => SameCounters]_vars

(* a paid decision and a replay, made after a spend of 900 was recorded *)
C16_Witness ==
    \E i \in Calls, j \in Calls :
        /\ Fresh(i) /\ Dec(i).reward_value > 0
        /\ log[i].daily_spend = Some(900)
        /\ log[j].hit
        /\ Live(data, cac_key(Req(i).user_id, now), now)
        /\ data[cac_key(Req(i).user_id, now)].value = 900

(* C17: in the in-memory cache a value written by set(key, v, ttl) is what
   get(key) returns at every time up to the write time + ttl, and get
   returns None at every later time; a value written without ttl is
   returned at every time; the set made last on a key decides both, until
   the key is deleted or incremented. *)
C17_CacheTtl ==
    \A key \in CacheKeys :
        used.written[key] # None =>
            LET w == used.written[key][1]
            IN  cache_get(data, key, now)
                   = IF w.ttl = None \/ now <= w.time + w.ttl[1]
                     THEN Some(w.value) ELSE None

(* at time 3: a value set at 1 for 2 hours, in place of another one, is
   still there; one set at 0 for 1 hour is gone *)
C17_Witness ==
    /\ now = 3 /\ used.calls = 3
    /\ used.written["a"] = Some([value |-> 7, ttl |-> Some(2), time |-> 1])
    /\ used.written["b"] = Some([value |-> 5, ttl |-> Some(1), time |-> 0])
    /\ cache_get(data, "a", now) = Some(7)
    /\ cache_get(data, "b", now) = None
    /\ "b" \in DOMAIN data

(* C18: in the in-memory cache increment(key, n) returns and stores the
   live value of the key, or 0 when the key is absent or expired, plus n;
   it leaves the expiry of a live key as it is, and the entry it creates
   for an absent or expired key has no expiry. *)
C18_CacheIncrement ==
    [][(threads'[1].op = "increment" /\ used'.calls = used.calls + 1) =>
          LET key == threads'[1].key
              n == threads'[1].arg[1]
              live == Live(data, key, now)
              base == IF live THEN data[key].value ELSE 0
          IN  /\ threads'[1].result = base + n
              /\ key \in DOMAIN data'
              /\ data'[key].value = base + n
              /\ data'[key].expiry = IF live THEN data[key].expiry ELSE None
      ]_vars

(* an increment by 3 of an entry found expired *)
C18_Witness ==
    /\ threads[1].op = "increment"
    /\ threads[1].found = "expired"
    /\ threads[1].arg = Some(3)
    /\ threads[1].result = 3
    /\ data[threads[1].key] = [value |-> 3, expiry |-> None]

(* personas that the cap table of no policy lists *)
UnlistedPersonas == {"VIP", "new"}

(* C19: under the default policy the daily caps increase strictly with the
   persona, cap(NEW) = 0 < cap(RETURNING) = 1000 < cap(POWER) = 5000, a
   persona the table does not list has cap 0, and decide applies them: it
   reads the daily spend exactly for the personas whose cap is > 0, and
   lets through a POWER user what exceeds the cap of a RETURNING one. *)
C19_CapsIncrease ==
    policy = default_config =>
        /\ get_daily_cac_cap(policy, "NEW") = 0
        /\ get_daily_cac_cap(policy, "RETURNING") = 1000
        /\ get_daily_cac_cap(policy, "POWER") = 5000
        /\ get_daily_cac_cap(policy, "NEW")
              < get_daily_cac_cap(policy, "RETURNING")
        /\ get_daily_cac_cap(policy, "RETURNING")
              < get_daily_cac_cap(policy, "POWER")
        /\ \A persona \in UnlistedPersonas :
              get_daily_cac_cap(policy, persona) = 0
        /\ \A i \in Calls :
              Fresh(i) =>
                 /\ log[i].daily_spend # None <=> Dec(i).meta.persona # "NEW"
                 /\ log[i].path = "cap" <=>
                       /\ log[i].daily_spend # None
                       /\ SpendOf(i) + Req(i).amount
                             > (IF Dec(i).meta.persona = "POWER" THEN 5000
                                ELSE 1000)

(* 900 spent and 1000 more: paid to a POWER user *)
C19_Witness ==
    \E i \in Calls :
        /\ policy = default_config
        /\ Fresh(i) /\ Dec(i).meta.persona = "POWER"
        /\ log[i].daily_spend = Some(900) /\ Req(i).amount = 1000
        /\ log[i].path = "select" /\ Dec(i).reward_value > 0

(* calls i and j both missed the same idempotency entry and computed, and
   i made its idempotency write before j *)
Raced(i, j) ==
    /\ settings.enable_idempotency /\ backend = "memory"
    /\ i # j /\ Fresh(i) /\ Fresh(j)
    /\ SameKey(i, j)
    /\ log[i].epoch = log[j].epoch
    /\ log[i].startGen = log[j].startGen
    /\ log[i].writeSeq[1] < log[j].writeSeq[1]

(* no call has written the key of call j since j did *)
LastWriter(j) ==
    /\ \A k \in Calls :
          (Fresh(k) /\ SameKey(j, k) /\ log[k].epoch = log[j].epoch)
             => log[k].writeSeq[1] <= log[j].writeSeq[1]
    /\ \A p \in Threads :
          ~(/\ Deciding(p) /\ threads[p].pc = "last_reward"
            /\ KeyOf(p) = build_idempotency_key(Req(j)))

(* C20: whenever two decide calls with the same idempotency key both miss
   the cache in step 1 and compute, they return different decision_ids;
   the cache then holds the decision of the one that wrote last, for as
   long as that entry is live and nothing wrote after it, and no replay
   that begins after that write returns the decision_id of the one that
   wrote first. *)
C20_LastWriterWins ==
    \A i \in Calls, j \in Calls :
        Raced(i, j) =>
            LET key == build_idempotency_key(Req(j))
            IN  /\ Dec(i).decision_id # Dec(j).decision_id
                /\ ( /\ LastWriter(j) /\ log[j].epoch = epoch
                     /\ Live(data, key, now) )
                      => data[key].value.decision_id = Dec(j).decision_id
                /\ \A r \in Calls :
                      ( /\ log[r].hit /\ SameKey(r, j)
                        /\ log[r].epoch = log[j].epoch
                        /\ log[r].startWrites >= log[j].writeSeq[1] )
                      => Dec(r).decision_id # Dec(i).decision_id

(* the race, both callers answered, and a replay that returns the decision
   written last *)
C20_Witness ==
    \E i \in Calls, j \in Calls, r \in Calls :
        /\ Raced(i, j)
        /\ log[i].startGen = 0
        /\ log[j].startIdx = 0 /\ log[i].startIdx = 0
        /\ log[r].hit /\ SameKey(r, j)
        /\ log[r].startWrites = 2 /\ log[j].writeSeq = Some(2)
        /\ Dec(r).decision_id = Dec(j).decision_id
        /\ data[build_idempotency_key(Req(j))].value.decision_id
              = Dec(j).decision_id

(* the update of thread p makes its write in this step *)
Writes(p) == threads[p].pc = "spend_write" /\ threads'[p] = Idle

(* C21: an _update_daily_cac_spend call writes what it read plus its own
   amount, whatever the counter holds by then: when two updates of the same
   counter with amounts a and b both read old before either writes, the
   first write leaves old + a and the second old + b, never old + a + b;
   what another update wrote between the read and the write is lost. *)
C21_LostUpdate ==
    [][\A p \in Threads :
          (Writes(p) /\ backend = "memory") =>
             LET k == threads[p].cache_key
                 old == threads[p].current[1]
             IN  /\ data'[k].value = old + threads[p].amount
                 /\ \A q \in Threads \ {p} :
                       ( /\ threads[q].pc = "spend_write"
                         /\ threads[q].cache_key = k
                         /\ threads[q].current = threads[p].current )
                       => /\ threads'[q].overlapped
                          /\ threads'[q].current[1] + threads'[q].amount
                                # old + threads[p].amount + threads[q].amount
                 /\ (threads[p].overlapped /\ Live(data, k, now)
                        /\ data[k].value > old)
                       => data'[k].value < data[k].value + threads[p].amount
      ]_vars

(* two updates of 100 and 200 that both read 0: the counter ends at 200 *)
C21_Witness ==
    /\ Cardinality(Threads) > 1
    /\ used.spends = 2 /\ used.calls = 0
    /\ \A p \in Threads : threads[p] = Idle
    /\ Recorded(used.recorded, "u", 0) = 300
    /\ Live(data, "cac:u:0", now) /\ data["cac:u:0"].value = 200

(* thread p returns in this step, answered from the idempotency cache *)
ReturnsHit(p) ==
    /\ Deciding(p) /\ threads'[p] = Idle
    /\ Len(log') = Len(log) + 1
    /\ log'[Len(log')].hit

(* C22: a decide call that hits the idempotency cache changes no cache
   entry: neither the step that takes the request nor the lookup that
   returns the stored decision writes, refreshes or removes persona:{u},
   last_reward:{u}, a daily spend counter or the idempotency entry, value
   or expiry; the call resolves no persona and draws no decision_id. *)
C22_HitChangesNothing ==
    [][\A p \in Threads :
          /\ (Start(p) /\ threads'[p].pc = "idem_check") => data' = data
          /\ ReturnsHit(p) =>
                /\ threads[p].pc = "idem_check"
                /\ data' = data
                /\ personas' = personas
                /\ nextId' = nextId
                /\ log'[Len(log')].persona = None
                /\ log'[Len(log')].decision
                      = Some(data[KeyOf(p)].value)]_vars

(* a replay a day after the decision: the persona entry has expired and is
   left as it is, the idempotency entry and the last_reward marker keep the
   expiry they got at hour 0 *)
C22_Witness ==
    \E j \in Calls :
        /\ log[j].hit /\ log[j].checkTime = Some(24) /\ now = 24
        /\ Req(j).user_id = "u"
        /\ "persona:u" \in DOMAIN data /\ Expired(data, "persona:u", now)
        /\ data[build_idempotency_key(Req(j))].expiry = Some(24)
        /\ data["last_reward:u"].expiry = Some(24)
        /\ data["last_reward:u"].value = 2

(* thread p returns in this step with a decision it computed *)
ReturnsFresh(p) ==
    /\ Deciding(p) /\ threads'[p] = Idle
    /\ Len(log') = Len(log) + 1
    /\ ~log'[Len(log')].hit

(* C23: every decide call that computes a fresh decision ends with the
   write of last_reward:{user_id}, whichever step determined the reward:
   the value is the ts of the request whenever the request carries one and
   the current time otherwise, with the last-reward TTL. *)
C23_LastRewardStamp ==
    [][\A p \in Threads :
          (ReturnsFresh(p) /\ backend = "memory") =>
             LET request == threads[p].request
             IN  /\ threads[p].pc = "last_reward"
                 /\ data'[last_reward_key(request.user_id)]
                       = [value |-> IF request.ts # None THEN request.ts[1]
                                    ELSE now,
                          expiry |-> Some(now + last_reward_cache_ttl)]]_vars

(* thread p determines its reward in this step *)
Determines(p) ==
    /\ Deciding(p) /\ threads[p].decision = None
    /\ threads'[p].op = "decide" /\ threads'[p].decision # None

(* C24: the reward of a fresh decision is determined in strict priority:
   the cap check first (for a persona whose cap is > 0, on the spend it
   read), then prefer_xp_mode, then the cooldown (looked up only when the
   first two did not fire), and the weighted selection only when none of
   the three fired; each of the three gives (XP, 0) without a seed being
   taken, so with prefer_xp_mode set every fresh decision is (XP, 0), and
   with the cooldown enabled so is that of a user within cooldown, for
   every seed. *)
C24_StrictPriority ==
    [][\A p \in Threads :
          Determines(p) =>
             LET t == threads'[p]
                 user_id == t.request.user_id
                 daily_cap == get_daily_cac_cap(policy, t.persona[1].persona)
                 capFired == /\ daily_cap > 0
                             /\ t.daily_spend[1] + t.request.amount > daily_cap
                 cooling == /\ cooldown_enabled(policy)
                            /\ is_in_cooldown(policy, data, user_id, now)
                 reward == <<t.decision[1].reward_type,
                             t.decision[1].reward_value>>
             IN  /\ t.daily_spend # None <=> daily_cap > 0
                 /\ t.path = IF capFired THEN "cap"
                             ELSE IF prefer_xp_mode(policy) THEN "prefer"
                             ELSE IF cooling THEN "cooldown"
                             ELSE "select"
                 /\ t.path \in {"cap", "prefer"} => threads[p].pc = "determine"
                 /\ t.path # "select" => (reward = <<"XP", 0>> /\ t.seed = None)
                 /\ t.path = "select" =>
                       /\ t.seed = Some(hashSeed[user_id])
                       /\ reward = select_reward(policy, hashSeed[user_id],
                                                 t.request.amount)
                 /\ prefer_xp_mode(policy) => reward = <<"XP", 0>>
                 /\ cooling => reward = <<"XP", 0>>]_vars

(* seed 90: a GOLD reward, then (XP, 0) for the same amount from the
   cooldown that the first decision started *)
C24_Witness ==
    \E i \in Calls, j \in Calls :
        /\ Fresh(i) /\ Fresh(j) /\ i < j
        /\ policy.cooldown_enabled /\ ~policy.prefer_xp_mode
        /\ hashSeed[Req(i).user_id] = 90
        /\ Req(i).user_id = Req(j).user_id /\ Req(i).amount = Req(j).amount
        /\ log[i].path = "select" /\ Dec(i).reward_type = "GOLD"
        /\ log[j].path = "cooldown" /\ Dec(j).reward_type = "XP"
        /\ Dec(j).reward_value = 0 /\ log[j].seed = None

(* C25: the cooldown lookup of a decide call finds the user in cooldown
   exactly when last_reward:{user_id} is live and (now - the stored
   timestamp) < cooldown_hours * 3600; a user without a live entry is not
   in cooldown, and at a difference of exactly cooldown_hours * 3600 the
   user is no longer in cooldown. *)
C25_CooldownCheck ==
    [][\A p \in Threads :
          (Determines(p) /\ threads[p].pc = "cooldown") =>
             LET key == last_reward_key(threads[p].request.user_id)
                 live == Live(data, key, now)
                 cooling == threads'[p].path = "cooldown"
             IN  /\ threads'[p].path \in {"cooldown", "select"}
                 /\ ~live => ~cooling
                 /\ live => (cooling <=>
                               now - data[key].value < policy.cooldown_hours)
                 /\ (live /\ now - data[key].value = policy.cooldown_hours)
                       => ~cooling]_vars

(* a first decision at hour 0, and a second one that found the marker of
   the first exactly 24 hours old, still live, and went on to the
   selection *)
C25_Witness ==
    /\ policy.cooldown_enabled /\ policy.cooldown_hours = 24
    /\ Len(log) = 1 /\ log[1].path = "select"
    /\ now = 24
    /\ Deciding(1) /\ threads[1].pc = "last_reward"
    /\ threads[1].path = "select"
    /\ Live(data, "last_reward:u", now)
    /\ data["last_reward:u"] = [value |-> 0, expiry |-> Some(24)]

(* the running total of the percents of the first n weights *)
RECURSIVE CumulativePercent(_, _)
CumulativePercent(weights, n) ==
    IF n = 0 THEN 0
    ELSE CumulativePercent(weights, n - 1) + weight_percent(weights[n][2])

(* C26: the weighted selection takes the weights in the configured order;
   with a seed in 0..99 the winner is the first type whose running
   cumulative percent is strictly greater than the seed (default policy:
   XP below 70, CHECKOUT from 70 to 89, GOLD from 90); CHECKOUT pays
   floor(amount * 0.05), GOLD floor(amount * 0.02), XP 0; when no
   cumulative percent is greater than the seed (weights that sum below 100)
   the result is (XP, 0). *)
C26_WeightedSelection ==
    \A i \in Calls :
        (Fresh(i) /\ log[i].path = "select") =>
            LET weights == policy.reward_types
                seed == log[i].seed[1]
                amount == Req(i).amount
                above == {n \in 1..Len(weights) :
                             seed < CumulativePercent(weights, n)}
                first == CHOOSE n \in above : \A m \in above : n <= m
                reward == <<Dec(i).reward_type, Dec(i).reward_value>>
            IN  /\ seed \in 0..99
                /\ above = {} => reward = <<"XP", 0>>
                /\ above # {} =>
                      reward = IF weights[first][1] = "CHECKOUT"
                               THEN <<"CHECKOUT", (amount * 5) \div 100>>
                               ELSE IF weights[first][1] = "GOLD"
                               THEN <<"GOLD", (amount * 2) \div 100>>
                               ELSE <<"XP", 0>>
                /\ policy.reward_types = default_config.reward_types =>
                      Dec(i).reward_type = IF seed < 70 THEN "XP"
                                           ELSE IF seed < 90 THEN "CHECKOUT"
                                           ELSE "GOLD"

(* weights 0.5 and 0.2: seed 70 is below no cumulative percent *)
C26_Witness ==
    \E i \in Calls :
        /\ Fresh(i) /\ log[i].path = "select"
        /\ policy.reward_types = << <<"XP", 500>>, <<"CHECKOUT", 200>> >>
        /\ log[i].seed = Some(70) /\ Req(i).amount = 150
        /\ Dec(i).reward_type = "XP" /\ Dec(i).reward_value = 0

(* round(weight * 100), the weight in thousandths *)
rounded_percent(weight) == (weight + 5) \div 10

RECURSIVE RoundedCumulative(_, _)
RoundedCumulative(weights, n) ==
    IF n = 0 THEN 0
    ELSE RoundedCumulative(weights, n - 1) + rounded_percent(weights[n][2])

(* C27: each reward type contributes round(weight * 100), the integer
   nearest to weight * 100, to the cumulative threshold, for every
   configured weight: the type that wins a selection is the first one whose
   running total of these rounded percents is greater than the seed. *)
C27_RoundedPercent ==
    \A i \in Calls :
        (Fresh(i) /\ log[i].path = "select") =>
            LET weights == policy.reward_types
                seed == log[i].seed[1]
                above == {n \in 1..Len(weights) :
                             seed < RoundedCumulative(weights, n)}
                first == CHOOSE n \in above : \A m \in above : n <= m
            IN  /\ \A n \in 1..Len(weights) :
                      weight_percent(weights[n][2])
                         = rounded_percent(weights[n][2])
                /\ Dec(i).reward_type
                      = IF above = {} THEN "XP" ELSE weights[first][1]

(* the record that the dataset gives for the user, read field by field *)
DatasetRecord(user_id) ==
    [user_id |-> user_id,
     persona |-> DatasetPersona(user_id),
     lifetime_purchases |->
         IF "lifetime_purchases" \in DOMAIN personas[user_id]
         THEN personas[user_id].lifetime_purchases ELSE 0,
     last_reward_ts |->
         IF "last_reward_ts" \in DOMAIN personas[user_id]
         THEN Some(personas[user_id].last_reward_ts) ELSE None]

(* C28: get_persona(u) returns the live cache entry persona:{u} when there
   is one, whatever the dataset holds and without writing; otherwise it
   returns the dataset record of u when u is in the dataset, else
   {u, NEW, lifetime_purchases 0, no last_reward_ts}, and in both of these
   cases it writes what it returns to persona:{u} with the persona-cache
   TTL before it returns; the dataset is never written. *)
C28_PersonaResolution ==
    [][\A p \in Threads :
          (Deciding(p) /\ backend = "memory" /\ epoch' = epoch) =>
             LET user_id == threads[p].request.user_id
                 key == persona_key(user_id)
             IN  /\ (threads[p].pc = "get_persona"
                        /\ threads'[p].pc # "get_persona") =>
                       /\ personas' = personas
                       /\ IF Live(data, key, now)
                          THEN /\ threads'[p].persona = Some(data[key].value)
                               /\ threads'[p].pc = "determine"
                               /\ data' = data
                          ELSE /\ threads'[p].persona
                                     = Some(IF user_id \in DOMAIN personas
                                            THEN DatasetRecord(user_id)
                                            ELSE [user_id |-> user_id,
                                                  persona |-> "NEW",
                                                  lifetime_purchases |-> 0,
                                                  last_reward_ts |-> None])
                               /\ threads'[p].pc = "set_persona"
                               /\ ~Live(data', key, now)
                 /\ (threads[p].pc = "set_persona"
                        /\ threads'[p].pc # "set_persona") =>
                       /\ personas' = personas
                       /\ threads'[p].pc = "determine"
                       /\ threads'[p].persona = threads[p].persona
                       /\ data'[key] = [value |-> threads[p].persona[1],
                                        expiry |-> Some(now + persona_cache_ttl)]
      ]_vars

(* a call that has just found in the cache a RETURNING record, written
   there before an update made the dataset record POWER *)
C28_Witness ==
    \E p \in Threads :
        /\ threads[p].pc = "determine"
        /\ threads[p].found = "cache"
        /\ threads[p].request.user_id = "u"
        /\ threads[p].persona[1].persona = "RETURNING"
        /\ personas["u"].persona = "POWER"

(* C29: after update_persona(u, r) has completed, every get_persona(u) that
   is made later returns r, while the cache entry is live and after it has
   expired, until the next update_persona(u, .) is made. *)
C29_UpdateVisible ==
    [][\A p \in Threads :
          ( /\ Deciding(p) /\ threads[p].pc = "get_persona"
            /\ threads'[p].op = "decide" /\ threads'[p].persona # None
            /\ backend = "memory"
            /\ used.updated[threads[p].request.user_id] # None )
          => threads'[p].persona
                = used.updated[threads[p].request.user_id]]_vars

(* call i returned before call j was made, with the same key, and wrote or
   read the idempotency entry *)
Earlier(i, j) ==
    /\ i <= log[j].startIdx
    /\ SameTriple(Req(i), Req(j))
    /\ log[i].epoch = log[j].epoch
    /\ log[i].entryExpiry # None
    /\ log[j].checkTime # None

Elapsed(i, j) == log[j].checkTime[1] > log[i].entryExpiry[1]

(* C30: a decide call that repeats a key and looks up after the idempotency
   TTL of every earlier entry for the key has elapsed is computed afresh: it
   misses, gets a decision_id that no earlier call had, and writes the entry
   with a whole new TTL; a repeat that looks up before the entry has expired
   gets the stored decision; calls do not overlap (SpecSeq). *)
C30_TtlScoped ==
    \A j \in Calls :
        LET earlier == {i \in Calls : Earlier(i, j)}
        IN  earlier # {} =>
               IF \A i \in earlier : Elapsed(i, j)
               THEN /\ Fresh(j)
                    /\ \A i \in earlier :
                          Dec(j).decision_id # Dec(i).decision_id
                    /\ log[j].entryExpiry # None
                    /\ log[j].entryExpiry[1]
                          >= log[j].checkTime[1] + idempotency_ttl
               ELSE /\ log[j].hit
                    /\ \A i \in earlier :
                          ~Elapsed(i, j) => Dec(j) = Dec(i)

(* a repeat after expiry that is decided on the cooldown of that moment *)
C30_Witness ==
    \E i \in Calls, j \in Calls :
        /\ Earlier(i, j) /\ Elapsed(i, j)
        /\ Fresh(i) /\ Fresh(j)
        /\ Dec(i).reward_type # "XP"
        /\ Dec(j).reward_type = "XP"
        /\ Dec(j).decision_id # Dec(i).decision_id


(* the counter of user_id for calendar day d *)
DayKey(user_id, d) == "cac:" \o user_id \o ":" \o ToString(d)

(* what the counter of (user_id, d) holds at time t: nothing when there is
   no live entry *)
DaySpend(user_id, d, t) ==
    IF Live(data, DayKey(user_id, d), t) THEN data[DayKey(user_id, d)].value
    ELSE 0

(* C31: the cap check of a decide made on calendar day D reads the counter
   of (user_id, D) and no other: the spend it compares with the cap is what
   that counter holds, 0 when nothing was recorded on D, whatever the
   counters of earlier days hold while they are still live; the cap check
   cuts the decision short exactly when that spend + amount > cap. *)
C31_DateRollover ==
    [][\A p \in Threads :
          ( /\ Deciding(p) /\ threads[p].pc = "determine"
            /\ threads'[p].op = "decide" /\ threads'[p].pc # "determine"
            /\ get_daily_cac_cap(policy, threads[p].persona[1].persona) > 0 )
          => LET user_id == threads[p].request.user_id
                 spend == DaySpend(user_id, now \div HoursPerDay, now)
                 daily_cap == get_daily_cac_cap(policy,
                                                threads[p].persona[1].persona)
             IN  /\ threads'[p].daily_spend = Some(spend)
                 /\ threads'[p].path = "cap"
                       <=> spend + threads[p].request.amount > daily_cap
      ]_vars

(* on the day after 900 was recorded, with that record still live, a
   request for 1000 under the cap of 1000 is paid *)
C31_Witness ==
    \E p \in Threads :
        /\ threads[p].pc = "last_reward"
        /\ threads[p].path = "select"
        /\ threads[p].daily_spend = Some(0)
        /\ threads[p].request.amount = 1000
        /\ now = 24
        /\ Live(data, DayKey("u", 0), now)
        /\ data[DayKey("u", 0)].value = 900
        /\ threads[p].decision[1].reward_value > 0


(* C32: the xp of a fresh decision is a function of the amount, the
   resolved persona and the policy alone: two fresh decisions of a run with
   the same amount and the same persona have the same xp, whatever the
   daily spend, the cooldown marker and the seed were at each, and whether
   each ended by the cap check, prefer_xp_mode, the cooldown or the
   weighted selection. *)
C32_XpIndependent ==
    \A i \in Calls, j \in Calls :
        ( /\ Fresh(i) /\ Fresh(j)
          /\ Req(i).amount = Req(j).amount
          /\ log[i].persona[1].persona = log[j].persona[1].persona )
        => Dec(i).xp = Dec(j).xp

(* the same request decided by the selection, then with 900 more spent by
   the cap check *)
C32_Witness ==
    \E i \in Calls, j \in Calls :
        /\ Fresh(i) /\ Fresh(j)
        /\ Req(i).amount = Req(j).amount
        /\ log[i].persona[1].persona = log[j].persona[1].persona
        /\ log[i].path = "select" /\ log[i].daily_spend = Some(0)
        /\ Dec(i).reward_value > 0
        /\ log[j].path = "cap" /\ log[j].daily_spend = Some(900)
        /\ Dec(j).xp > 0


(* C33: two decide calls whose (txn_id, user_id, merchant_id) triples
   differ in any way, ids that contain ':' included, have different
   idempotency keys, and neither is answered with the decision of the
   other. *)
C33_KeyInjective ==
    \A i \in Calls, j \in Calls :
        ~SameTriple(Req(i), Req(j)) =>
            /\ ~SameKey(i, j)
            /\ Dec(i).decision_id # Dec(j).decision_id


(* calls i and j of one process both missed the idempotency lookup and both
   computed, with the same key, amount, resolved persona and daily spend *)
BothComputed(i, j) ==
    /\ i # j
    /\ Fresh(i) /\ Fresh(j)
    /\ log[i].checkTime # None /\ log[j].checkTime # None
    /\ SameKey(i, j)
    /\ log[i].epoch = log[j].epoch
    /\ Req(i).amount = Req(j).amount
    /\ log[i].persona = log[j].persona
    /\ log[i].daily_spend = log[j].daily_spend

SameReward(i, j) ==
    /\ Dec(i).reward_type = Dec(j).reward_type
    /\ Dec(i).reward_value = Dec(j).reward_value

(* C34, as stated: two decide calls with the same idempotency key and the
   same amount that both miss the cache and both compute, with no persona or
   spend update in between, agree on reward_type, reward_value and xp and
   differ only in decision_id, for every policy and interleaving. *)
C34_Original ==
    \A i \in Calls, j \in Calls :
        BothComputed(i, j) =>
            /\ SameReward(i, j)
            /\ Dec(i).xp = Dec(j).xp
            /\ Dec(i).decision_id # Dec(j).decision_id

(* C34, amended: two such calls always agree on xp and differ in
   decision_id; they agree on reward_type and reward_value when the cooldown
   is disabled, and with the cooldown enabled unless the cooldown check cut
   exactly one of them short, which then returned (XP, 0). *)
C34_RacingDecisions ==
    \A i \in Calls, j \in Calls :
        BothComputed(i, j) =>
            /\ Dec(i).xp = Dec(j).xp
            /\ Dec(i).decision_id # Dec(j).decision_id
            /\ ~policy.cooldown_enabled =>
                  /\ log[i].path # "cooldown"
                  /\ SameReward(i, j)
            /\ (log[i].path = "cooldown") = (log[j].path = "cooldown")
                  => SameReward(i, j)
            /\ log[i].path = "cooldown" =>
                  Dec(i).reward_type = "XP" /\ Dec(i).reward_value = 0

(* two overlapping calls of which the one that checked the cooldown after
   the other had written last_reward got (XP, 0), the other a reward *)
C34_Witness ==
    \E i \in Calls, j \in Calls :
        /\ BothComputed(i, j)
        /\ log[j].startIdx < i
        /\ i < j
        /\ log[i].path = "select" /\ Dec(i).reward_value > 0
        /\ log[j].path = "cooldown" /\ Dec(j).reward_type = "XP"


(* no get_persona and no update_persona call is in progress *)
PersonaQuiet ==
    \A p \in Threads :
        threads[p].pc \notin {"get_persona", "set_persona", "update_cache"}

(* C35: whenever no get_persona and no update_persona call is in progress,
   a live cache entry persona:{u} holds the record that the dataset, or the
   NEW default for a user that is not in it, yields for u. *)
C35_CacheCoherence ==
    PersonaQuiet =>
        \A u \in UserIds :
            Live(data, persona_key(u), now) =>
                data[persona_key(u)].value = resolve_persona(personas, u)


(* no request of the run so far carried a timestamp *)
NoTimestamps ==
    /\ \A i \in Calls : Req(i).ts = None
    /\ \A p \in Threads : Deciding(p) => threads[p].request.ts = None

(* a fresh decision for user_id returned in this process less than the
   cooldown period ago *)
RecentDecision(user_id) ==
    \E i \in Calls :
        /\ Fresh(i)
        /\ Req(i).user_id = user_id
        /\ log[i].epoch = epoch
        /\ log[i].doneTime # None
        /\ now - log[i].doneTime[1] < policy.cooldown_hours

(* C36: with the cooldown enabled and no timestamps in the requests, a
   fresh decide for a user whose reward is determined less than
   cooldown_hours after an earlier fresh decide for that user returned gives
   (XP, 0), for every cooldown_hours and whatever the earlier decision
   was. *)
C36_CooldownWindow ==
    [][\A p \in Threads :
          ( /\ Determines(p)
            /\ policy.cooldown_enabled
            /\ backend = "memory"
            /\ NoTimestamps
            /\ RecentDecision(threads[p].request.user_id) )
          => /\ threads'[p].decision[1].reward_type = "XP"
             /\ threads'[p].decision[1].reward_value = 0]_vars


(* C37: infer_persona(n) is NEW for n = 0, POWER for n >= 10 and RETURNING
   for every other n, negative n included; and get_persona does not apply
   it: while update_persona has not been called, the persona a fresh decide
   resolves for a user of the dataset is the stored persona field, NEW when
   the record has none, whatever its lifetime_purchases. *)
C37_InferPersona ==
    /\ used.inferred # None =>
          LET n == used.inferred[1].lifetime_purchases
              result == used.inferred[1].result
          IN  /\ n = 0 => result = "NEW"
              /\ n >= 10 => result = "POWER"
              /\ (n # 0 /\ n < 10) => result = "RETURNING"
    /\ used.updates = 0 =>
          \A i \in Calls :
              (Fresh(i) /\ Req(i).user_id \in DOMAIN personas) =>
                  LET record == personas[Req(i).user_id]
                  IN  log[i].persona[1].persona
                         = IF "persona" \in DOMAIN record THEN record.persona
                           ELSE "NEW"

(* -1 purchases inferred as RETURNING, and a decide for a user whose record
   has 12 purchases and no persona field resolved as NEW *)
C37_Witness ==
    /\ used.inferred = Some([lifetime_purchases |-> -1, result |-> "RETURNING"])
    /\ \E i \in Calls :
          /\ Fresh(i) /\ Req(i).user_id = "u"
          /\ "persona" \notin DOMAIN personas["u"]
          /\ personas["u"].lifetime_purchases = 12
          /\ log[i].persona[1].persona = "NEW"
          /\ infer_persona(12) = "POWER"

====
